---------------------------- MODULE Spec2Model ----------------------------
(***************************************************************************)
(* Verification model of the streaming CAN decoder of the Sunseeker data   *)
(* tools (src/app/can_analyzer.py): the partitioned CSV writer, the        *)
(* id-to-decoder dispatch and the chunked decode engine with its optional  *)
(* two-channel split.                                                      *)
(*                                                                         *)
(* Conventions.                                                            *)
(*  - A text (a CSV cell) is a TLA+ string; where single characters are    *)
(*    inspected it is handled as a sequence of one-character strings.      *)
(*  - A decoded record (a Python dict) is a sequence of <<key, value>>     *)
(*    pairs in insertion order.                                            *)
(*  - A DataFrame is [columns |-> sequence of names, rows |-> sequence of  *)
(*    records].                                                            *)
(*  - A file is the sequence of its lines: a header line                   *)
(*    [kind |-> "header", cols |-> ...] or a data line                     *)
(*    [kind |-> "row", cells |-> ...] holding the non-empty cells in       *)
(*    header order.                                                        *)
(***************************************************************************)
EXTENDS Integers, Sequences, FiniteSets, TLC

VARIABLES
    opts,            \* options of the run (arguments of _stream_decode)
    input,           \* the input CSV: its columns and its number of data rows
    pc,              \* position of the engine thread
    err,             \* why the run raised ("" while it has not)
    consumed,        \* rows the chunked reader has handed out so far
    chunk,           \* the current chunk, after the channel filter
    ri,              \* index in chunk of the row the loop handles next
    buf,             \* the record buffer of the current chunk
    rows_processed,  \* the engine's processed-row counter
    total_rows,      \* the row estimate taken before the run
    progress,        \* the fractions passed to progress_cb, in call order
    writers,         \* the PartitionedCSVWriter objects, by name
    call,            \* the write_df call frame of each writer
    files,           \* the file system: path -> lines
    outputs,         \* the list _stream_decode returns
    decoded,         \* history: every record appended to buf, in order
    sent             \* history: per writer, the rows of every batch passed to write_df

vars == <<opts, input, pc, err, consumed, chunk, ri, buf, rows_processed,
          total_rows, progress, writers, call, files, outputs, decoded, sent>>

engineVars == <<opts, input, pc, err, consumed, chunk, ri, buf, rows_processed,
                total_rows, progress, outputs, decoded>>

-----------------------------------------------------------------------------
(* Bounds of the model *)

\* largest row ceiling tried
MaxRowLimit == 5
\* largest batch handed to one write_df call in the writer specification
MaxBatch == 4
\* most rows written through one writer in the writer specification
MaxWritten == 15

-----------------------------------------------------------------------------
(* Generic helpers *)

Min(a, b) == IF a < b THEN a ELSE b

Max(a, b) == IF a > b THEN a ELSE b

Range(s) == {s[i] : i \in 1..Len(s)}

RECURSIVE Flatten(_)
Flatten(ss) == IF ss = <<>> THEN <<>> ELSE Head(ss) \o Flatten(Tail(ss))

\* Python's seq[a:b] for 0-based a, b that may be negative or out of range
PySlice(s, a, b) ==
    LET n  == Len(s)
        na == IF a < 0 THEN Max(a + n, 0) ELSE Min(a, n)
        nb == IF b < 0 THEN Max(b + n, 0) ELSE Min(b, n)
    IN  IF nb <= na THEN <<>> ELSE SubSeq(s, na + 1, nb)

Digits == <<"0", "1", "2", "3", "4", "5", "6", "7", "8", "9">>

\* str(n) for n >= 0
RECURSIVE DecStr(_)
DecStr(n) == IF n < 10 THEN Digits[n + 1] ELSE DecStr(n \div 10) \o Digits[(n % 10) + 1]

-----------------------------------------------------------------------------
(* Records (Python dicts) *)

Keys(rec) == [i \in 1..Len(rec) |-> rec[i][1]]

Has(rec, k) == \E i \in 1..Len(rec) : rec[i][1] = k

Get(rec, k) == rec[CHOOSE i \in 1..Len(rec) : rec[i][1] = k][2]

\* rec[k] = v: replaces the value in place, or appends the key
Put(rec, k, v) ==
    IF Has(rec, k)
    THEN [i \in 1..Len(rec) |-> IF rec[i][1] = k THEN <<k, v>> ELSE rec[i]]
    ELSE Append(rec, <<k, v>>)

-----------------------------------------------------------------------------
(* DataFrames *)

\* cols followed by the names of ks not yet in it, in order
AddNew(cols, ks) ==
    LET fresh == SelectSeq([i \in 1..Len(ks) |-> <<i, ks[i]>>],
                           LAMBDA e : /\ e[2] \notin Range(cols)
                                      /\ \A j \in 1..(e[1] - 1) : ks[j] # e[2])
    IN  cols \o [i \in 1..Len(fresh) |-> fresh[i][2]]

RECURSIVE FrameColumns(_)
\* pd.DataFrame(list of dicts).columns: the keys in order of first appearance
FrameColumns(recs) ==
    IF recs = <<>> THEN <<>>
    ELSE AddNew(Keys(Head(recs)), FrameColumns(Tail(recs)))

DataFrame(recs) == [columns |-> FrameColumns(recs), rows |-> recs]

ReindexNone(df, cols) == df

\* df.reindex(columns=cols): exactly the columns cols, in that order; a column the
\* frame lacks is all-empty, a column not in cols is dropped
Reindex(df, cols) ==
    [columns |-> cols,
     rows    |-> [i \in 1..Len(df.rows) |->
                    SelectSeq(df.rows[i], LAMBDA kv : kv[1] \in Range(cols))]]

\* df.iloc[a:b]
ILoc(df, a, b) == [columns |-> df.columns, rows |-> PySlice(df.rows, a, b)]

\* one CSV data line of a frame row: the cells the row populates, in header order
CsvRow(columns, rec) ==
    [kind  |-> "row",
     cells |-> LET present == SelectSeq(columns,
                                LAMBDA c : Has(rec, c))
               IN  [i \in 1..Len(present) |-> <<present[i], Get(rec, present[i])>>]]

CsvHeader(columns) == [kind |-> "header", cols |-> columns]

\* the lines df.to_csv(index=False, header=h) produces
CsvLines(df, h) ==
    (IF h THEN <<CsvHeader(df.columns)>> ELSE <<>>)
    \o [i \in 1..Len(df.rows) |-> CsvRow(df.columns, df.rows[i])]

\* the new lines put before the old ones
ToCsvPrepending(fs, path, df, h, mode) ==
    LET old == IF mode = "a" /\ path \in DOMAIN fs THEN fs[path] ELSE <<>>
    IN  (path :> (CsvLines(df, h) \o old)) @@ fs

\* df.to_csv(path, mode=...): "w" replaces the file, "a" appends to it
ToCsv(fs, path, df, h, mode) ==
    LET old == IF mode = "a" /\ path \in DOMAIN fs THEN fs[path] ELSE <<>>
    IN  (path :> (old \o CsvLines(df, h))) @@ fs

-----------------------------------------------------------------------------
(* PartitionedCSVWriter *)

\* PartitionedCSVWriter.__init__; out is os.path.splitext(out_path)
NewWriter(out, row_limit, columns) ==
    [base |-> out.base, ext |-> out.ext, row_limit |-> row_limit,
     columns |-> columns, part |-> 1, count_in_part |-> 0,
     paths |-> <<>>, header_written |-> FALSE]

\* every partition numbered, the first too
_pathNumbered(w) == w.base \o "_part" \o DecStr(w.part) \o w.ext

_path(w) ==
    IF w.part = 1 THEN w.base \o w.ext
    ELSE w.base \o "_part" \o DecStr(w.part) \o w.ext

_roll(w) == [w EXCEPT !.part = w.part + 1, !.count_in_part = 0,
                      !.header_written = FALSE]

\* a write_df call frame: st is "idle" (no call), "loop" (in the while loop),
\* "returned" or "raised"; the locals df and start live while it is in the loop
IdleCall == [st |-> "idle", df |-> DataFrame(<<>>), start |-> 0]

ReturnedCall == [IdleCall EXCEPT !.st = "returned"]

\* write_df up to the loop: an empty frame returns at once, any other is
\* reindexed to the writer's columns
WriteDfEnter(w, df) ==
    IF df.rows = <<>> THEN ReturnedCall
    ELSE [st |-> "loop", df |-> Reindex(df, w.columns), start |-> 0]

\* room = self.row_limit - self.count_in_part, read at the top of an iteration
LoopRoomShort(w) == w.row_limit - w.count_in_part - 1

LoopRoom(w) == w.row_limit - w.count_in_part

\* if room <= 0: self._roll()
LoopWriter(w) == IF LoopRoom(w) <= 0 THEN _roll(w) ELSE w

LoopTakeRest(w, c) == Len(c.df.rows) - c.start

\* take = min(room, n - start), with the room read before the roll
LoopTake(w, c) == Min(LoopRoom(w), Len(c.df.rows) - c.start)

LoopChunkOneMore(w, c) == ILoc(c.df, c.start, c.start + LoopTake(w, c) + 1)

\* chunk = df.iloc[start:start+take]
LoopChunk(w, c) == ILoc(c.df, c.start, c.start + LoopTake(w, c))

\* the writer after one iteration of the loop of write_df
LoopWriterAfter(w, c) ==
    LET w1   == LoopWriter(w)
        path == _path(w1)
    IN  [w1 EXCEPT !.paths = IF path \in Range(w1.paths) THEN w1.paths
                             ELSE Append(w1.paths, path),
                   !.header_written = TRUE,
                   !.count_in_part = w1.count_in_part + Len(LoopChunk(w, c).rows)]

\* the file system after one iteration of the loop of write_df
LoopFilesAfter(fs, w, c) ==
    LET w1 == LoopWriter(w)
    IN  ToCsv(fs, _path(w1), LoopChunk(w, c), ~w1.header_written,
              IF w1.header_written THEN "a" ELSE "w")

\* the call frame after one iteration, were the loop left after an iteration that took no row
LoopCallAfterHeaderOnly(w, c) ==
    LET s == c.start + LoopTake(w, c)
    IN  IF s < Len(c.df.rows) /\ LoopTake(w, c) > 0 THEN [c EXCEPT !.start = s]
        ELSE ReturnedCall

\* the call frame after one iteration: start advances, the loop ends at n
LoopCallAfter(w, c) ==
    LET s == c.start + LoopTake(w, c)
    IN  IF s < Len(c.df.rows) THEN [c EXCEPT !.start = s] ELSE ReturnedCall

\* one iteration of the while loop of write_df by writer k
WriteDfStep(k) ==
    /\ call[k].st = "loop"
    /\ writers' = [writers EXCEPT ![k] = LoopWriterAfter(writers[k], call[k])]
    /\ files' = LoopFilesAfter(files, writers[k], call[k])
    /\ call' = [call EXCEPT ![k] = LoopCallAfter(writers[k], call[k])]


\* write_df(df) is called on writer k with the frame built from recs
WriteDfCall(k, recs) ==
    /\ call[k].st \in {"idle", "returned"}
    /\ call' = [call EXCEPT ![k] = WriteDfEnter(writers[k], DataFrame(recs))]
    /\ sent' = [sent EXCEPT ![k] = @ \o recs]
    /\ UNCHANGED <<writers, files>>

-----------------------------------------------------------------------------
(* The writer on its own: one PartitionedCSVWriter, any sequence of batches *)

\* most rows written while the batches still vary in the fields they populate
MaxVaried == 4

WriterOut == [base |-> "out", ext |-> ".csv"]

WriterColumns == <<"timestamp", "id_hex", "message", "raw_data">>

RowShapes == {"plain", "raw", "extra"}

\* the sn-th row handed to the writer: its fields depend on the batch's shape; the
\* shape "extra" populates a field the schema lacks and lists its keys in another order
TestRow(sn, shape) ==
    CASE shape = "plain" -> << <<"timestamp", "t" \o DecStr(sn)>>, <<"message", "MPPT">> >>
      [] shape = "raw"   -> << <<"timestamp", "t" \o DecStr(sn)>>, <<"id_hex", "0x123">>,
                               <<"message", "RAW">>, <<"raw_data", "00">> >>
      [] shape = "extra" -> << <<"word0", 7>>, <<"message", "MPPT">>,
                               <<"timestamp", "t" \o DecStr(sn)>> >>

InitWriter ==
    /\ \E rl \in 1..MaxRowLimit :
         /\ opts = [split |-> FALSE, include_bits |-> FALSE, channel |-> <<>>,
                    row_limit |-> rl, progress |-> FALSE, outs |-> TRUE]
         /\ writers = [k \in {"one"} |-> NewWriter(WriterOut, rl, WriterColumns)]
    /\ input = [cols |-> {}, nrows |-> 0]
    /\ pc = "writer"
    /\ err = ""
    /\ consumed = 0
    /\ chunk = <<>>
    /\ ri = 1
    /\ buf = <<>>
    /\ rows_processed = 0
    /\ total_rows = 0
    /\ progress = <<>>
    /\ call = [k \in {"one"} |-> IdleCall]
    /\ files = <<>>
    /\ outputs = <<>>
    /\ decoded = <<>>
    /\ sent = [k \in {"one"} |-> <<>>]

\* the caller passes a batch of n rows of one shape (n = 0: an empty frame)
WriterBatch ==
    /\ pc = "writer"
    /\ \E n \in 0..MaxBatch, shape \in RowShapes :
         /\ Len(sent["one"]) + n <= (IF shape = "plain" THEN MaxWritten ELSE MaxVaried)
         /\ WriteDfCall("one", [i \in 1..n |-> TestRow(Len(sent["one"]) + i, shape)])
    /\ UNCHANGED engineVars

WriterStep ==
    /\ pc = "writer"
    /\ WriteDfStep("one")
    /\ UNCHANGED <<engineVars, sent>>

NextWriter == WriterBatch \/ WriterStep

SpecWriter == InitWriter /\ [][NextWriter]_vars

-----------------------------------------------------------------------------
(* Texts: sequences of one-character strings *)

HexUpper == <<"0", "1", "2", "3", "4", "5", "6", "7", "8", "9",
              "A", "B", "C", "D", "E", "F">>

HexLower == <<"0", "1", "2", "3", "4", "5", "6", "7", "8", "9",
              "a", "b", "c", "d", "e", "f">>

IsHexChar(c) == c \in Range(HexUpper) \cup Range(HexLower)

HexVal(c) == CHOOSE v \in 0..15 : HexUpper[v + 1] = c \/ HexLower[v + 1] = c

\* the characters of the model's alphabet that Python counts as whitespace
Whitespace == {" ", "\t"}

UpperLetters == <<"A", "B", "C", "D", "E", "F", "G", "H", "I", "J", "K", "L", "M",
                  "N", "O", "P", "Q", "R", "S", "T", "U", "V", "W", "X", "Y", "Z">>

LowerLetters == <<"a", "b", "c", "d", "e", "f", "g", "h", "i", "j", "k", "l", "m",
                  "n", "o", "p", "q", "r", "s", "t", "u", "v", "w", "x", "y", "z">>

LowerChar(c) ==
    IF c \in Range(UpperLetters)
    THEN LowerLetters[CHOOSE i \in 1..26 : UpperLetters[i] = c]
    ELSE c

\* str.lower()
Lower(s) == [i \in 1..Len(s) |-> LowerChar(s[i])]

RECURSIVE LStrip(_)
LStrip(s) == IF s # <<>> /\ Head(s) \in Whitespace THEN LStrip(Tail(s)) ELSE s

RECURSIVE RStrip(_)
RStrip(s) ==
    IF s # <<>> /\ s[Len(s)] \in Whitespace THEN RStrip(SubSeq(s, 1, Len(s) - 1)) ELSE s

\* str.strip()
Strip(s) == RStrip(LStrip(s))

\* str.replace(" ", "")
RemoveSpaces(s) == SelectSeq(s, LAMBDA c : c # " ")

\* s[:n]
Take(s, n) == PySlice(s, 0, n)

\* s.ljust(w, fill)
LJust(s, w, fill) == s \o [i \in 1..(w - Len(s)) |-> fill]

RECURSIVE HexNumber(_)
\* the value of a text of hex digits
HexNumber(s) ==
    IF s = <<>> THEN 0 ELSE 16 * HexNumber(SubSeq(s, 1, Len(s) - 1)) + HexVal(s[Len(s)])

\* int(s, 16): surrounding whitespace, a sign and a 0x prefix are accepted, then
\* at least one hex digit and nothing else (digit-separating underscores are not
\* in the model's alphabet)
IntBase16(s) ==
    LET t      == Strip(s)
        signed == t # <<>> /\ Head(t) \in {"-", "+"}
        u      == IF signed THEN Tail(t) ELSE t
        pref   == Len(u) >= 2 /\ u[1] = "0" /\ u[2] \in {"x", "X"}
        digs   == IF pref THEN SubSeq(u, 3, Len(u)) ELSE u
        ok     == digs # <<>> /\ \A i \in 1..Len(digs) : IsHexChar(digs[i])
    IN  [ok  |-> ok,
         val |-> IF ~ok THEN 0
                 ELSE IF signed /\ Head(t) = "-" THEN 0 - HexNumber(digs)
                 ELSE HexNumber(digs)]

\* parse_can_id: both branches read the stripped text as hexadecimal
parse_can_id(val) == IntBase16(Strip(val))

RECURSIVE FromHex(_)
\* bytes.fromhex: whitespace is skipped before each byte, a byte is two adjacent
\* hex digits, anything else raises (ok = FALSE)
FromHex(s) ==
    LET t == LStrip(s)
    IN  IF t = <<>> THEN [ok |-> TRUE, bytes |-> <<>>]
        ELSE IF Len(t) < 2 \/ ~IsHexChar(t[1]) \/ ~IsHexChar(t[2])
             THEN [ok |-> FALSE, bytes |-> <<>>]
        ELSE LET rest == FromHex(SubSeq(t, 3, Len(t)))
             IN  [ok    |-> rest.ok,
                  bytes |-> IF rest.ok
                            THEN <<16 * HexVal(t[1]) + HexVal(t[2])>> \o rest.bytes
                            ELSE <<>>]

RECURSIVE HexDigitsOf(_, _)
\* the digits of n >= 0 in base 16, most significant first, taken from table
HexDigitsOf(n, table) ==
    IF n < 16 THEN table[n + 1]
    ELSE HexDigitsOf(n \div 16, table) \o table[(n % 16) + 1]

\* hex(n)
hex(n) == IF n < 0 THEN "-0x" \o HexDigitsOf(0 - n, HexLower)
          ELSE "0x" \o HexDigitsOf(n, HexLower)

\* f"{n:02X}"
Hex02X(n) == IF n < 16 THEN "0" \o HexDigitsOf(n, HexUpper) ELSE HexDigitsOf(n, HexUpper)

\* f"{b:02x}", one byte of bytes.hex()
Hex02x(b) == HexLower[(b \div 16) + 1] \o HexLower[(b % 16) + 1]

RECURSIVE BytesHex(_)
\* bytes.hex()
BytesHex(d) == IF d = <<>> THEN "" ELSE Hex02x(Head(d)) \o BytesHex(Tail(d))

-----------------------------------------------------------------------------
(* Field codecs; d is a payload, read with the 0-based index of the code *)

B(d, i) == d[i + 1]

Bit(v, k) == (v \div (2 ^ k)) % 2

u16_le(b0, b1) == (b0 + b1 * 256) % 65536

\* the 16-bit word read without its sign
s16_le_unsigned(b0, b1) == (b0 + b1 * 256) % 65536

s16_le(b0, b1) ==
    LET v == u16_le(b0, b1) IN IF Bit(v, 15) = 1 THEN v - 65536 ELSE v

u16_be(b0, b1) == (b0 * 256 + b1) % 65536

s8(v) == IF v >= 128 THEN v - 256 ELSE v

RECURSIVE SumSeq(_)
SumSeq(s) == IF s = <<>> THEN 0 ELSE Head(s) + SumSeq(Tail(s))

\* the checksum taken over all eight bytes
compute_checksum_all(broadcast_id, data) ==
    (broadcast_id + 8 + SumSeq(PySlice(data, 0, 8))) % 256

compute_checksum(broadcast_id, data) ==
    (broadcast_id + 8 + SumSeq(PySlice(data, 0, 7))) % 256

\* a decimal number m * 10^-e (a scaled integer field)
Dec(m, e) == [m |-> m, e |-> e]

\* a 32-bit IEEE-754 value given by its four bytes (least significant first),
\* times a factor
F32(b0, b1, b2, b3) == [f32 |-> <<b0, b1, b2, b3>>, times |-> 1]

Times100(f) == [f EXCEPT !.times = 100]

\* NaN and the infinities have all exponent bits set
IsFinite(f) == (f.f32[4] % 128) * 2 + (f.f32[3] \div 128) # 255

\* int(round(f)) of a finite value
RoundInt(f) == [round |-> f.f32]

\* floats_le: (hi32, lo32), the float in bytes 4..7 first, then the one in bytes 0..3
floats_le(d) ==
    [hi |-> F32(B(d, 4), B(d, 5), B(d, 6), B(d, 7)),
     lo |-> F32(B(d, 0), B(d, 1), B(d, 2), B(d, 3))]

split_words_le(d) ==
    <<u16_le(B(d, 0), B(d, 1)), u16_le(B(d, 2), B(d, 3)),
      u16_le(B(d, 4), B(d, 5)), u16_le(B(d, 6), B(d, 7))>>

expand_bits_word(word, prefix) ==
    [b \in 1..16 |-> <<prefix \o "_bit" \o DecStr(b - 1), Bit(word, b - 1)>>]

\* the entries of a byte with its bits numbered from the most significant one
ExpandByteMsbFirst(i, b, prefix) ==
    << <<prefix \o DecStr(i), b>>, <<prefix \o DecStr(i) \o "_hex", Hex02X(b)>> >>
    \o [k \in 1..8 |-> <<prefix \o DecStr(i) \o "_bit" \o DecStr(k - 1), Bit(b, 8 - k)>>]

\* the ten entries expand_bits_bytes makes for byte number i with value b
ExpandByte(i, b, prefix) ==
    << <<prefix \o DecStr(i), b>>, <<prefix \o DecStr(i) \o "_hex", Hex02X(b)>> >>
    \o [k \in 1..8 |-> <<prefix \o DecStr(i) \o "_bit" \o DecStr(k - 1), Bit(b, k - 1)>>]

expand_bits_bytes(data, prefix) ==
    Flatten([i \in 1..Len(data) |-> ExpandByte(i - 1, data[i], prefix)])

\* dict.update(entries): a key the dict has keeps its place and takes the last
\* value given for it, the new keys follow in the order they first appear
Update(rec, entries) ==
    LET n       == Len(entries)
        last(k) == entries[CHOOSE i \in 1..n :
                             entries[i][1] = k /\ \A j \in (i + 1)..n : entries[j][1] # k][2]
        given(k) == \E i \in 1..n : entries[i][1] = k
        fresh   == SelectSeq([i \in 1..n |-> <<i, entries[i][1]>>],
                             LAMBDA e : /\ ~Has(rec, e[2])
                                        /\ \A j \in 1..(e[1] - 1) : entries[j][1] # e[2])
    IN  [i \in 1..Len(rec) |-> IF given(rec[i][1]) THEN <<rec[i][1], last(rec[i][1])>>
                                ELSE rec[i]]
        \o [i \in 1..Len(fresh) |-> <<fresh[i][2], last(fresh[i][2])>>]

-----------------------------------------------------------------------------
(* Decoder results: a list of records, None, or a raised exception *)

List(recs) == [kind |-> "list", recs |-> recs]

None == [kind |-> "none", recs |-> <<>>]

Raise == [kind |-> "raise", recs |-> <<>>]

\* the fields every decoder starts a record with
Row3(ts, can_id, message) ==
    << <<"timestamp", ts>>, <<"id_hex", hex(can_id)>>, <<"message", message>> >>

-----------------------------------------------------------------------------
(* CAN1: Orion BMS and thermistor modules *)

OR_CAN_BASE == 1712
OR_SVOLT == OR_CAN_BASE + 0
OR_PACK == OR_CAN_BASE + 1
OR_STEMP == OR_CAN_BASE + 2
OR_FLAGS == OR_CAN_BASE + 3
OR_AVOLT == OR_CAN_BASE + 4
OR_ATEMP == OR_CAN_BASE + 5

THERM_GENERAL == 406385536
THERM_ADDRCLAIM == 418316160

\* reads d[0..6]
decode_or_svolt(ts, can_id, d) ==
    IF Len(d) < 7 THEN Raise
    ELSE List(<< Row3(ts, can_id, "OR_SVOLT") \o
                 << <<"high_cell_voltage_V", Dec(u16_le(B(d, 0), B(d, 1)), 4)>>,
                    <<"high_cell_id", B(d, 2)>>,
                    <<"low_cell_voltage_V", Dec(u16_le(B(d, 4), B(d, 5)), 4)>>,
                    <<"low_cell_id", B(d, 6)>> >> >>)

\* reads d[0..7]; current in tenths, voltage in tenths, SOC in halves
decode_or_pack(ts, can_id, d) ==
    IF Len(d) < 8 THEN Raise
    ELSE List(<< Row3(ts, can_id, "OR_PACK") \o
                 << <<"pack_current_A", Dec(s16_le(B(d, 0), B(d, 1)), 1)>>,
                    <<"pack_voltage_V", Dec(u16_le(B(d, 2), B(d, 3)), 1)>>,
                    <<"state_of_charge_pct", Dec(u16_le(B(d, 4), B(d, 5)) * 5, 1)>>,
                    <<"num_cells", u16_le(B(d, 6), B(d, 7))>> >> >>)

decode_or_stemp(ts, can_id, d) ==
    IF Len(d) < 8 THEN Raise
    ELSE List(<< Row3(ts, can_id, "OR_STEMP") \o
                 << <<"high_temp_C", s16_le(B(d, 0), B(d, 1))>>,
                    <<"high_temp_id", u16_le(B(d, 2), B(d, 3))>>,
                    <<"low_temp_C", s16_le(B(d, 4), B(d, 5))>>,
                    <<"low_temp_id", u16_le(B(d, 6), B(d, 7))>> >> >>)

FlagNames == <<"flag0_low_cell_voltage", "flag0_high_cell_voltage", "flag0_over_temp",
               "flag0_open_wiring", "flag0_internal_comm", "flag0_charge_enable_relay",
               "flag0_discharge_relay", "flag0_blank">>

\* reads d[0] and the whole payload as hex
decode_or_flags(ts, can_id, d) ==
    IF Len(d) < 1 THEN Raise
    ELSE List(<< Row3(ts, can_id, "OR_FLAGS") \o
                 [i \in 1..8 |-> <<FlagNames[i], Bit(B(d, 0), i - 1) = 1>>] \o
                 << <<"raw_flags_hex", BytesHex(d)>> >> >>)

decode_or_avolt(ts, can_id, d, include_bits) ==
    IF Len(d) < 8 THEN Raise
    ELSE LET res_raw == (B(d, 3) % 128) * 256 + B(d, 4)
             base == Row3(ts, can_id, "OR_AVOLT") \o
                 << <<"cell_id", B(d, 0)>>,
                    <<"inst_voltage_V", Dec(u16_be(B(d, 1), B(d, 2)), 4)>>,
                    <<"internal_resistance_mOhm", Dec(res_raw, 2)>>,
                    <<"shunting", Bit(B(d, 3), 7) = 1>>,
                    <<"open_circuit_voltage_V", Dec(u16_be(B(d, 5), B(d, 6)), 4)>>,
                    <<"checksum", B(d, 7)>>,
                    <<"checksum_ok", B(d, 7) = compute_checksum(can_id, d)>> >>
         IN  List(<< IF include_bits THEN Update(base, expand_bits_bytes(d, "b"))
                     ELSE base >>)

\* every (0, 0) pair dropped, the first one too
AtempKeptNonZero(d, i) == ~(B(d, i) = 0 /\ s8(B(d, i + 1)) = 0)

\* the pair at bytes i, i+1 is kept unless it is (0, 0) and not the first pair
AtempKept(d, i) == ~(B(d, i) = 0 /\ s8(B(d, i + 1)) = 0 /\ i > 0)

decode_or_atemp(ts, can_id, d) ==
    IF Len(d) < 8 THEN Raise
    ELSE LET kept == SelectSeq(<<0, 2, 4, 6>>, LAMBDA i : AtempKept(d, i))
         IN  List([j \in 1..Len(kept) |->
                     Row3(ts, can_id, "OR_ATEMP") \o
                     << <<"thermistor_local_id", B(d, kept[j])>>,
                        <<"temp_C", s8(B(d, kept[j] + 1))>> >>])

decode_therm_general(ts, can_id, d) ==
    IF Len(d) < 8 THEN Raise
    ELSE List(<< Row3(ts, can_id, "THERM_GENERAL") \o
                 << <<"thermistor_global_id", B(d, 0)>>,
                    <<"temp_C", s8(B(d, 1))>>,
                    <<"thermistor_local_id", B(d, 2) % 128>>,
                    <<"local_fault", Bit(B(d, 2), 7) = 1>>,
                    <<"lowest_temp_C", s8(B(d, 3))>>,
                    <<"highest_temp_C", s8(B(d, 4))>>,
                    <<"module_highest_id", B(d, 5)>>,
                    <<"module_lowest_id", B(d, 6)>>,
                    <<"reserved", B(d, 7)>> >> >>)

decode_therm_addrclaim(ts, can_id, d) ==
    IF Len(d) < 8 THEN Raise
    ELSE List(<< Row3(ts, can_id, "THERM_ADDR_CLAIM") \o
                 << <<"unique_id_hex", BytesHex(PySlice(d, 0, 3))>>,
                    <<"bms_target_addr", B(d, 3)>>,
                    <<"module_number_shifted", B(d, 4)>>,
                    <<"const_5", B(d, 5)>>,
                    <<"const_6", B(d, 6)>>,
                    <<"const_7", B(d, 7)>> >> >>)

-----------------------------------------------------------------------------
(* CAN2: motor controllers, driver controls, steering wheel, battery
   protection, MPPT *)

MC_CAN_BASE1 == 1024
MC_CAN_BASE2 == 1056
DC_CAN_BASE == 1280
STW_CAN_BASE == 1344
BP_CAN_BASE == 1408
MPPT_CAN_BASE == 1536
MPPT_CAN_ONOFF == MPPT_CAN_BASE + 16

\* the offset tables, as sequences of <<offset, name>>
MC_OFFSETS == << <<1, "MC_LIMITS">>, <<2, "MC_BUS">>, <<3, "MC_VELOCITY">>,
                 <<4, "MC_PHASE">>, <<5, "MC_V_VECTOR">>, <<6, "MC_I_VECTOR">>,
                 <<7, "MC_BEMF_VECTOR">>, <<8, "MC_RAIL1">>, <<9, "MC_RAIL2">>,
                 <<11, "MC_TEMP1">>, <<12, "MC_TEMP2">>, <<14, "MC_CUMULATIVE">>,
                 <<23, "MC_SLIPSPEED">> >>

DC_OFFSETS == << <<1, "DC_DRIVE">>, <<2, "DC_POWER">>, <<3, "DC_RESET">>,
                 <<4, "DC_SWITCH">> >>

STW_OFFSETS == << <<1, "STW_SWITCH">> >>

BP_OFFSETS == << <<1, "BP_VMAX">>, <<2, "BP_VMIN">>, <<3, "BP_TMAX">>,
                 <<4, "BP_PCDONE">>, <<5, "BP_ISH">>, <<6, "BP_PVSS">>,
                 <<7, "BP_RESET">> >>

\* bit -> label, as label.lower() spells it in the field name
STW_FLAGS == << <<0, "horn">>, <<1, "ind_l">>, <<2, "ind_r">>, <<3, "regen">>,
                <<4, "cruise">> >>

\* table.get(offset, default)
OffsetName(table, offset, default) ==
    IF Has(table, offset) THEN Get(table, offset) ELSE default

McBaseFirst(can_id) == MC_CAN_BASE1

\* the base of the motor controller whose range holds can_id
McBase(can_id) ==
    IF MC_CAN_BASE1 <= can_id /\ can_id < MC_CAN_BASE1 + 32 THEN MC_CAN_BASE1
    ELSE MC_CAN_BASE2

\* the fields decode_mc adds for the message name
McFields(name, f) ==
    CASE name = "MC_BUS" -> << <<"bus_current_A", f.hi>>, <<"bus_voltage_V", f.lo>> >>
      [] name = "MC_VELOCITY" ->
            << <<"vehicle_velocity_mps", f.hi>>, <<"motor_velocity_rpm", f.lo>> >>
      [] name = "MC_PHASE" ->
            << <<"phase_c_current_arms", f.hi>>, <<"phase_b_current_arms", f.lo>> >>
      [] name = "MC_V_VECTOR" -> << <<"Vd", f.hi>>, <<"Vq", f.lo>> >>
      [] name = "MC_I_VECTOR" -> << <<"Id", f.hi>>, <<"Iq", f.lo>> >>
      [] name = "MC_BEMF_VECTOR" -> << <<"BEMFd", f.hi>>, <<"BEMFq", f.lo>> >>
      [] name = "MC_TEMP1" -> << <<"heatsink_temp_C", f.hi>>, <<"motor_temp_C", f.lo>> >>
      [] name = "MC_TEMP2" -> << <<"dsp_temp_C", f.lo>> >>
      [] name = "MC_CUMULATIVE" -> << <<"dc_bus_Ah", f.hi>>, <<"odometer_m", f.lo>> >>
      [] name = "MC_RAIL1" -> << <<"rail_15V", f.hi>> >>
      [] name = "MC_RAIL2" -> << <<"rail_3v3", f.hi>>, <<"rail_1v9", f.lo>> >>
      [] OTHER -> <<>>

\* floats_le unpacks exactly 8 bytes, whatever the offset
decode_mc(ts, can_id, d) ==
    LET base   == McBase(can_id)
        offset == can_id - base
        name   == OffsetName(MC_OFFSETS, offset, "MC_UNKNOWN_" \o Hex02X(offset))
    IN  IF Len(d) # 8 THEN Raise
        ELSE List(<< Update(Row3(ts, can_id, name) \o
                            << <<"base_hex", hex(base)>>, <<"offset", offset>> >>,
                            McFields(name, floats_le(d))) >>)

\* DC_DRIVE and DC_POWER unpack the floats, DC_SWITCH reads the four words; the
\* other offsets do not touch the payload
decode_dc(ts, can_id, d) ==
    LET offset == can_id - DC_CAN_BASE
        name   == OffsetName(DC_OFFSETS, offset, "DC_UNKNOWN_" \o Hex02X(offset))
        row    == Row3(ts, can_id, name) \o << <<"offset", offset>> >>
    IN  IF name \in {"DC_DRIVE", "DC_POWER", "DC_SWITCH"} /\ Len(d) # 8 THEN Raise
        ELSE IF name = "DC_DRIVE"
             THEN List(<< Update(row, << <<"motor_current_pct", Times100(floats_le(d).hi)>>,
                                         <<"motor_velocity_rpm", floats_le(d).lo>> >>) >>)
        ELSE IF name = "DC_POWER"
             THEN List(<< Update(row, << <<"bus_current_cmd_pct",
                                           Times100(floats_le(d).hi)>> >>) >>)
        ELSE IF name = "DC_SWITCH"
             THEN List(<< Update(Update(row,
                              expand_bits_word(split_words_le(d)[1], "dc_switch_pos")),
                              expand_bits_word(split_words_le(d)[2], "dc_switch_change")) >>)
        ELSE List(<<row>>)

decode_stw(ts, can_id, d) ==
    LET offset == can_id - STW_CAN_BASE
        name   == OffsetName(STW_OFFSETS, offset, "STW_UNKNOWN_" \o Hex02X(offset))
        row    == Row3(ts, can_id, name)
    IN  IF Len(d) # 8 THEN Raise
        ELSE LET w == split_words_le(d)
             IN  IF name = "STW_SWITCH"
                 THEN List(<< Update(Update(Update(row,
                                  expand_bits_word(w[1], "stw_pos")),
                                  expand_bits_word(w[2], "stw_change")),
                                  [i \in 1..Len(STW_FLAGS) |->
                                     <<"stw_pos_" \o STW_FLAGS[i][2],
                                       Bit(w[1], STW_FLAGS[i][1])>>]) >>)
                 ELSE List(<< Update(row, << <<"word0", w[1]>>, <<"word1", w[2]>>,
                                             <<"word2", w[3]>>, <<"word3", w[4]>> >>) >>)

\* int(round(f_lo)) raises for a NaN or an infinity
decode_bp(ts, can_id, d) ==
    LET offset == can_id - BP_CAN_BASE
        name   == OffsetName(BP_OFFSETS, offset, "BP_UNKNOWN_" \o Hex02X(offset))
        row    == Row3(ts, can_id, name) \o << <<"offset", offset>> >>
    IN  IF Len(d) # 8 THEN Raise
        ELSE LET f == floats_le(d)
             IN  IF name \in {"BP_VMAX", "BP_VMIN", "BP_TMAX"} /\ ~IsFinite(f.lo) THEN Raise
                 ELSE IF name = "BP_VMAX"
                      THEN List(<< Update(row, << <<"max_cell_voltage_V", f.hi>>,
                                                  <<"max_cell_id", RoundInt(f.lo)>> >>) >>)
                 ELSE IF name = "BP_VMIN"
                      THEN List(<< Update(row, << <<"min_cell_voltage_V", f.hi>>,
                                                  <<"min_cell_id", RoundInt(f.lo)>> >>) >>)
                 ELSE IF name = "BP_TMAX"
                      THEN List(<< Update(row, << <<"max_temp_C", f.hi>>,
                                                  <<"max_temp_cell", RoundInt(f.lo)>> >>) >>)
                 ELSE IF name = "BP_ISH"
                      THEN List(<< Update(row, << <<"shunt_current_A", f.hi>>,
                                                  <<"state_of_charge_pct", f.lo>> >>) >>)
                 ELSE IF name = "BP_PVSS"
                      THEN List(<< Update(row, << <<"pack_voltage_V", f.lo>>,
                                                  <<"shunt_sum", f.hi>> >>) >>)
                 ELSE List(<<row>>)

decode_mppt(ts, can_id, d) ==
    IF Len(d) # 8 THEN Raise
    ELSE LET w   == split_words_le(d)
             row == Row3(ts, can_id, "MPPT") \o
                    << <<"sub_id", can_id - MPPT_CAN_BASE>>, <<"word0", w[1]>>,
                       <<"word1", w[2]>>, <<"word2", w[3]>>, <<"word3", w[4]>> >>
         IN  List(<< IF can_id = MPPT_CAN_ONOFF
                     THEN Put(row, "mppt_onoff_cmd", B(d, 0)) ELSE row >>)

-----------------------------------------------------------------------------
(* Dispatch *)

\* the ids of DECODERS_EXACT
ExactIds == {OR_SVOLT, OR_PACK, OR_STEMP, OR_FLAGS, OR_AVOLT, OR_ATEMP,
             THERM_GENERAL, THERM_ADDRCLAIM, MPPT_CAN_ONOFF}

\* DECODERS_EXACT[can_id](ts, can_id, d); the engine passes no include_bits
\* keyword, so the cell-broadcast entry decodes with include_bits = False
DecodeExact(ts, can_id, d) ==
    CASE can_id = OR_SVOLT -> decode_or_svolt(ts, can_id, d)
      [] can_id = OR_PACK -> decode_or_pack(ts, can_id, d)
      [] can_id = OR_STEMP -> decode_or_stemp(ts, can_id, d)
      [] can_id = OR_FLAGS -> decode_or_flags(ts, can_id, d)
      [] can_id = OR_AVOLT -> decode_or_avolt(ts, can_id, d, FALSE)
      [] can_id = OR_ATEMP -> decode_or_atemp(ts, can_id, d)
      [] can_id = THERM_GENERAL -> decode_therm_general(ts, can_id, d)
      [] can_id = THERM_ADDRCLAIM -> decode_therm_addrclaim(ts, can_id, d)
      [] can_id = MPPT_CAN_ONOFF -> decode_mppt(ts, can_id, d)

InRange(can_id, base, width) == base <= can_id /\ can_id < base + width

decode_dynamic(ts, can_id, d) ==
    IF InRange(can_id, MC_CAN_BASE1, 32) \/ InRange(can_id, MC_CAN_BASE2, 32)
    THEN decode_mc(ts, can_id, d)
    ELSE IF InRange(can_id, DC_CAN_BASE, 16) THEN decode_dc(ts, can_id, d)
    ELSE IF InRange(can_id, STW_CAN_BASE, 16) THEN decode_stw(ts, can_id, d)
    ELSE IF InRange(can_id, BP_CAN_BASE, 16) THEN decode_bp(ts, can_id, d)
    ELSE IF InRange(can_id, MPPT_CAN_BASE, 32) THEN decode_mppt(ts, can_id, d)
    ELSE None

\* dec = DECODERS_EXACT.get(can_id); recs = dec(...) if dec else decode_dynamic(...)
Dispatch(ts, can_id, d) ==
    IF can_id \in ExactIds THEN DecodeExact(ts, can_id, d)
    ELSE decode_dynamic(ts, can_id, d)

-----------------------------------------------------------------------------
(* The output schema *)

BitColumns(prefix) == [i \in 1..16 |-> prefix \o DecStr(i - 1)]

\* the columns known_columns adds for payload byte i when include_bits is set
ByteColumns(i) ==
    <<"b" \o DecStr(i), "b" \o DecStr(i) \o "_hex">>
    \o [k \in 1..8 |-> "b" \o DecStr(i) \o "_bit" \o DecStr(k - 1)]

known_columns(include_bits) ==
    <<"timestamp", "id_hex", "message", "channel", "raw_data",
      "base_hex", "offset", "sub_id",
      "bus_current_A", "bus_voltage_V",
      "vehicle_velocity_mps", "motor_velocity_rpm",
      "phase_c_current_arms", "phase_b_current_arms",
      "Vd", "Vq", "Id", "Iq", "BEMFd", "BEMFq",
      "heatsink_temp_C", "motor_temp_C", "dsp_temp_C",
      "dc_bus_Ah", "odometer_m", "rail_15V", "rail_3v3", "rail_1v9">>
    \o BitColumns("mc_limit_bit")
    \o BitColumns("dc_switch_pos_bit")
    \o BitColumns("dc_switch_change_bit")
    \o BitColumns("stw_pos_bit")
    \o BitColumns("stw_change_bit")
    \o <<"stw_pos_horn", "stw_pos_ind_l", "stw_pos_ind_r", "stw_pos_regen", "stw_pos_cruise",
         "max_cell_voltage_V", "max_cell_id",
         "min_cell_voltage_V", "min_cell_id",
         "max_temp_C", "max_temp_cell",
         "shunt_current_A", "state_of_charge_pct",
         "pack_voltage_V", "shunt_sum",
         "mppt_onoff_cmd",
         "high_cell_voltage_V", "high_cell_id", "low_cell_voltage_V", "low_cell_id",
         "pack_current_A", "pack_voltage_V_orion", "state_of_charge_pct_orion", "num_cells",
         "high_temp_C_orion", "high_temp_id", "low_temp_C_orion", "low_temp_id",
         "flag0_low_cell_voltage", "flag0_high_cell_voltage", "flag0_over_temp",
         "flag0_open_wiring",
         "flag0_internal_comm", "flag0_charge_enable_relay", "flag0_discharge_relay",
         "flag0_blank",
         "raw_flags_hex",
         "cell_id", "inst_voltage_V", "internal_resistance_mOhm", "shunting",
         "open_circuit_voltage_V", "checksum", "checksum_ok",
         "thermistor_local_id", "temp_C", "thermistor_global_id", "local_fault",
         "lowest_temp_C",
         "highest_temp_C", "module_highest_id", "module_lowest_id",
         "unique_id_hex", "bms_target_addr", "module_number_shifted",
         "const_5", "const_6", "const_7">>
    \o (IF include_bits THEN Flatten([i \in 1..8 |-> ByteColumns(i - 1)]) ELSE <<>>)

-----------------------------------------------------------------------------
(* One input row through the body of the row loop of _stream_decode *)

\* an input row r read with dtype=str: every cell is a text; cols are the
\* (lower-cased) column names of the chunk

\* sid = r.get("id", "").strip()
RowSid(r) == Strip(r.id)

DataTextRaw(r) == Strip(RemoveSpaces(r.data))

\* the payload text cut to 16 characters and left as short as it is
DataTextUnpadded(r) == Take(Strip(RemoveSpaces(r.data)), 16)

\* data_s: spaces removed, stripped, cut to 16 characters, right-padded with "0"
DataText(r) == LJust(Take(Strip(RemoveSpaces(r.data)), 16), 16, "0")

\* ts = r.get("timestamp", "")
RowTs(r, cols) == IF "timestamp" \in cols THEN r.timestamp ELSE ""

\* what the loop adds to a record: the byte expansion, then the channel tag
Tagged(rec, r, cols, include_bits, data_b) ==
    LET withBits == IF include_bits THEN Update(rec, expand_bits_bytes(data_b, "b"))
                    ELSE rec
    IN  IF "channel" \in cols THEN Put(withBits, "channel", r.channel) ELSE withBits

RawRecordUntrimmed(r, cols, can_id) ==
    Row3(RowTs(r, cols), can_id, "RAW") \o << <<"raw_data", DataTextRaw(r)>> >>

\* row = dict(timestamp=ts, id_hex=hex(can_id), message="RAW", raw_data=data_s)
RawRecord(r, cols, can_id) ==
    Row3(RowTs(r, cols), can_id, "RAW") \o << <<"raw_data", DataText(r)>> >>

\* the outcome of one iteration: "skip" (continue), "raise" (a decoder raised) or
\* "recs" with the records appended to buf
Outcome(kind, recs) == [kind |-> kind, recs |-> recs]

DecodeRow(r, cols, include_bits) ==
    LET sid    == RowSid(r)
        id     == parse_can_id(sid)
        data_b == FromHex(DataText(r))
    IN  IF sid = <<>> THEN Outcome("skip", <<>>)
        ELSE IF ~id.ok THEN Outcome("skip", <<>>)
        ELSE IF ~data_b.ok THEN Outcome("skip", <<>>)
        ELSE LET res == Dispatch(RowTs(r, cols), id.val, data_b.bytes)
             IN  IF res.kind = "raise" THEN Outcome("raise", <<>>)
                 ELSE IF res.kind = "none"
                      THEN Outcome("recs",
                             << Tagged(RawRecord(r, cols, id.val), r, cols,
                                       include_bits, data_b.bytes) >>)
                 ELSE Outcome("recs",
                        [i \in 1..Len(res.recs) |->
                           Tagged(res.recs[i], r, cols, include_bits, data_b.bytes)])

-----------------------------------------------------------------------------
(* The streaming engine: _stream_decode *)

\* rows read per chunk (300_000 in the source, scaled down)
CHUNK_ROWS == 2
\* buffered records that trigger a flush (10_000 in the source, scaled down)
FLUSH_EVERY == 2
\* most data rows of an input file
MaxRows == 3
\* largest row ceiling of an engine run
MaxRunRowLimit == 2

\* the battery-bus message names of the split
can1_msgs == {"OR_SVOLT", "OR_PACK", "OR_STEMP", "OR_FLAGS", "OR_AVOLT", "OR_ATEMP",
              "THERM_GENERAL", "THERM_ADDRCLAIM"}

\* a progress fraction n/d
Frac(n, d) == [n |-> n, d |-> d]

FracLeq(f, g) == f.n * g.d <= g.n * f.d

FracLess(f, g) == f.n * g.d < g.n * f.d

BatchFractionUncapped(processed, total) ==
    IF total # 0 THEN Frac(processed, total) ELSE Frac(0, 1)

\* min(rows_processed / total_rows, 0.999), or 0.0 when there is no estimate
BatchFraction(processed, total) ==
    IF total # 0
    THEN IF FracLeq(Frac(processed, total), Frac(999, 1000))
         THEN Frac(processed, total) ELSE Frac(999, 1000)
    ELSE Frac(0, 1)

\* the writers of a run
WriterNames == IF opts.split THEN {"c0", "c1"} ELSE {"one"}

\* the futures of the flush in hand whose result the engine has not collected, in
\* submission order (in single-file mode: the engine's own call of write_df)
Futures == SelectSeq(<<"c0", "c1", "one">>,
                     LAMBDA k : k \in DOMAIN call /\ call[k].st # "idle")

\* str(tag).lower() of the channel cell of a record
ChannelOf(rec) == Lower(Get(rec, "channel"))

\* the two groups of a flushed batch: by channel tag when the frame has a channel
\* column, else by message name
GroupC1(recs) ==
    IF "channel" \in Range(FrameColumns(recs))
    THEN SelectSeq(recs, LAMBDA rec : ChannelOf(rec) = <<"c", "a", "n", "1">>)
    ELSE SelectSeq(recs, LAMBDA rec : Get(rec, "message") \in can1_msgs)

GroupC0(recs) ==
    IF "channel" \in Range(FrameColumns(recs))
    THEN SelectSeq(recs, LAMBDA rec : ChannelOf(rec) = <<"c", "a", "n", "0">>)
    ELSE SelectSeq(recs, LAMBDA rec : Get(rec, "message") \notin can1_msgs)

\* the batch flush() hands to writer k
BatchFor(k, recs) ==
    CASE k = "c0" -> GroupC0(recs)
      [] k = "c1" -> GroupC1(recs)
      [] k = "one" -> recs

\* flush() up to the wait: a write_df call starts on every writer whose batch is
\* not empty (in split mode a group that is empty is not submitted)
Submitted(recs) ==
    [k \in DOMAIN call |->
        IF BatchFor(k, recs) # <<>>
        THEN WriteDfEnter(writers[k], DataFrame(BatchFor(k, recs)))
        ELSE IdleCall]

\* the channel filter comparing the tags as they are written
FilteredCaseSensitive(rows) ==
    IF opts.channel # <<>> /\ "channel" \in input.cols
    THEN SelectSeq(rows, LAMBDA r : r.channel = opts.channel)
    ELSE rows

\* the channel filter of a chunk
Filtered(rows) ==
    IF opts.channel # <<>> /\ "channel" \in input.cols
    THEN SelectSeq(rows, LAMBDA r : Lower(r.channel) = Lower(opts.channel))
    ELSE rows

OutPathShared(k) == [base |-> "out", ext |-> ".csv"]

\* os.path.splitext of the output path each writer is built on: writer_one on
\* out_one, writer_c0 on out_can1, writer_c1 on out_can2
OutPath(k) ==
    CASE k = "one" -> [base |-> "out", ext |-> ".csv"]
      [] k = "c0" -> [base |-> "first", ext |-> ".csv"]
      [] k = "c1" -> [base |-> "second", ext |-> ".csv"]

\* the ids of a routing run: the six battery ids, the two thermistor ids, an id
\* without decoder and one id of each family of the other bus
RouteIds ==
    { <<"6", "B", "0">>,
        <<"6", "B", "1">>,
        <<"6", "B", "2">>,
        <<"6", "B", "3">>,
        <<"6", "B", "4">>,
        <<"6", "B", "5">>,
        <<"1", "8", "3", "8", "F", "3", "8", "0">>,
        <<"1", "8", "E", "E", "F", "F", "8", "0">>,
        <<"1", "2", "3">>,
        <<"4", "0", "1">>,
        <<"5", "0", "1">>,
        <<"5", "4", "1">>,
        <<"5", "8", "1">>,
        <<"6", "0", "1">> }

\* the rows of a routing run: every id with the payload 01 02 03 04 05 06 07 08
RouteKinds ==
    { [id |-> id, data |-> <<"0", "1", "0", "2", "0", "3", "0", "4", "0", "5", "0", "6", "0", "7", "0", "8">>, channel |-> <<>>] : id \in RouteIds }

\* the kinds of input rows of a mixed run: <<id, data, channel>>
MixedKinds ==
    { \* no decoder: RAW; a short payload with a space
      [id |-> <<"1", "2", "3">>, data |-> <<"A", "B", " ", "C", "D">>,
       channel |-> <<"c", "a", "n", "0">>],
      \* extra temps: pairs (1,1), (2,2), (0,0), (0,0) make two records
      [id |-> <<"6", "B", "5">>,
       data |-> <<"0", "1", "0", "1", "0", "2", "0", "2", "0", "0", "0", "0", "0", "0",
                  "0", "0">>,
       channel |-> <<"C", "A", "N", "1">>],
      \* a motor controller offset the table lacks, tagged with a third channel
      [id |-> <<"0", "x", "4", "2", "F">>, data |-> <<"0", "1">>,
       channel |-> <<"c", "a", "n", "2">>],
      \* an id that is no hexadecimal number
      [id |-> <<"Z", "Z">>, data |-> <<"0", "1">>, channel |-> <<"c", "a", "n", "1">>],
      \* a payload that is no hexadecimal text
      [id |-> <<"6", "B", "1">>, data |-> <<"G", "G">>, channel |-> <<"c", "a", "n", "0">>],
      \* a payload with tabs between its bytes
      [id |-> <<"6", "B", "1">>, data |-> <<"0", "1", "\t", "\t", "0", "2">>,
       channel |-> <<"c", "a", "n", "1">>] }

\* the kinds of input rows of an engine run
RowKinds == IF "route" \in DOMAIN input THEN RouteKinds ELSE MixedKinds

\* the cells of the k-th data row of the file, of kind rk: the timestamp cell is
\* the row's number; a cell of a column the file lacks does not exist
InputRow(rk, k) ==
    [id        |-> IF "id" \in input.cols THEN rk.id ELSE <<>>,
     data      |-> IF "data" \in input.cols THEN rk.data ELSE <<>>,
     channel   |-> IF "channel" \in input.cols THEN rk.channel ELSE <<>>,
     timestamp |-> IF "timestamp" \in input.cols THEN "t" \o DecStr(k) ELSE ""]

ColumnSets == { {"id", "data", "timestamp", "channel"}, {"id", "data", "timestamp"},
                {"data", "timestamp", "channel"}, {"id", "timestamp"} }

ChannelFilters == { <<>>, <<"C", "a", "n", "1">> }

Init ==
    /\ opts \in [split : BOOLEAN, include_bits : {FALSE}, channel : ChannelFilters,
                 row_limit : 1..MaxRunRowLimit, progress : BOOLEAN, outs : BOOLEAN]
    /\ input \in [cols : ColumnSets, nrows : 0..MaxRows]
    /\ total_rows \in (IF opts.progress THEN {0, input.nrows} ELSE {0})
    /\ pc = "start"
    /\ err = ""
    /\ consumed = 0
    /\ chunk = <<>>
    /\ ri = 1
    /\ buf = <<>>
    /\ rows_processed = 0
    /\ progress = <<>>
    /\ writers = <<>>
    /\ call = <<>>
    /\ files = <<>>
    /\ outputs = <<>>
    /\ decoded = <<>>
    /\ sent = <<>>

\* the run raises: the exception leaves _stream_decode, which returns nothing
Abort(why) == pc' = "error" /\ err' = why

\* lines 474-505: the start event, then the writers of the mode
Start ==
    /\ pc = "start"
    /\ progress' = IF opts.progress THEN <<Frac(0, 1)>> ELSE <<>>
    /\ \E cb_raises \in {FALSE, opts.progress} :
         IF cb_raises
         THEN Abort("callback") /\ UNCHANGED <<writers, call, sent>>
         ELSE IF ~opts.outs
              THEN Abort("path") /\ UNCHANGED <<writers, call, sent>>
              ELSE /\ writers' = [k \in WriterNames |->
                                    NewWriter(OutPath(k), opts.row_limit,
                                              known_columns(opts.include_bits))]
                   /\ call' = [k \in WriterNames |-> IdleCall]
                   /\ sent' = [k \in WriterNames |-> <<>>]
                   /\ pc' = "read0"
                   /\ err' = err
    /\ UNCHANGED <<opts, input, consumed, chunk, ri, buf, rows_processed, total_rows,
                   files, outputs, decoded>>

\* lines 522-532: the reader hands out the next chunk; a chunk that lacks the id
\* or the data column is counted and passed over. The reader of a file without data
\* rows may hand out one empty chunk before it ends.
ReadChunk ==
    /\ pc \in {"read0", "read"}
    /\ consumed < input.nrows \/ pc = "read0"
    /\ LET m == Min(CHUNK_ROWS, input.nrows - consumed)
       IN  \E kinds \in [1..m -> RowKinds] :
             LET rows == Filtered([i \in 1..m |-> InputRow(kinds[i], consumed + i)])
             IN  /\ consumed' = consumed + m
                 /\ IF {"id", "data"} \subseteq input.cols
                    THEN /\ chunk' = rows
                         /\ ri' = 1
                         /\ buf' = <<>>
                         /\ pc' = "rows"
                         /\ UNCHANGED rows_processed
                    ELSE /\ rows_processed' = rows_processed + Len(rows)
                         /\ pc' = "read"
                         /\ UNCHANGED <<chunk, ri, buf>>
    /\ UNCHANGED <<opts, input, err, total_rows, progress, writers, call, files,
                   outputs, decoded, sent>>

\* flush() on a buffer recs up to its wait: the calls of write_df start
EnterFlush(recs) ==
    /\ pc' = "join"
    /\ call' = Submitted(recs)
    /\ sent' = [k \in DOMAIN sent |-> sent[k] \o BatchFor(k, recs)]

\* lines 561-599: one row of the chunk
RowStep ==
    /\ pc = "rows"
    /\ ri <= Len(chunk)
    /\ LET o == DecodeRow(chunk[ri], input.cols, opts.include_bits)
       IN  IF o.kind = "raise"
           THEN /\ Abort("decode")
                /\ UNCHANGED <<ri, buf, decoded, call, sent>>
           ELSE IF o.kind = "skip"
                THEN /\ ri' = ri + 1
                     /\ UNCHANGED <<pc, err, buf, decoded, call, sent>>
                ELSE /\ buf' = buf \o o.recs
                     /\ decoded' = decoded \o o.recs
                     /\ err' = err
                     /\ IF Len(buf \o o.recs) >= FLUSH_EVERY
                        THEN EnterFlush(buf \o o.recs) /\ ri' = ri
                        ELSE ri' = ri + 1 /\ UNCHANGED <<pc, call, sent>>
    /\ UNCHANGED <<opts, input, consumed, chunk, rows_processed, total_rows, progress,
                   writers, files, outputs>>

\* line 601: the flush after the last row of the chunk
TrailingFlush ==
    /\ pc = "rows"
    /\ ri > Len(chunk)
    /\ EnterFlush(buf)
    /\ UNCHANGED <<opts, input, err, consumed, chunk, ri, buf, rows_processed,
                   total_rows, progress, writers, files, outputs, decoded>>

\* line 100 raises (the disk is full, the path is not writable): the call ends
\* with the exception, after the roll and the path bookkeeping of the iteration
WriteDfFail(k) ==
    /\ call[k].st = "loop"
    /\ LET w1   == LoopWriter(writers[k])
           path == _path(w1)
       IN  writers' = [writers EXCEPT ![k] =
                         [w1 EXCEPT !.paths = IF path \in Range(w1.paths) THEN w1.paths
                                              ELSE Append(w1.paths, path)]]
    /\ call' = [call EXCEPT ![k] = [IdleCall EXCEPT !.st = "raised"]]
    /\ UNCHANGED files

\* a write_df call of the flush in hand runs one iteration of its loop
WriteStep ==
    /\ pc \in {"join", "shutdown"}
    /\ \E k \in DOMAIN call : WriteDfStep(k)
    /\ UNCHANGED <<engineVars, sent>>

WriteFail ==
    /\ pc \in {"join", "shutdown"}
    /\ \E k \in DOMAIN call : WriteDfFail(k)
    /\ UNCHANGED <<engineVars, sent>>

\* a raised call taken as a returned one
CollectSwallowing ==
    /\ pc = "join"
    /\ Futures # <<>>
    /\ LET k == Head(Futures)
       IN  /\ call[k].st \in {"returned", "raised"}
           /\ call' = [call EXCEPT ![k] = IdleCall]
           /\ UNCHANGED <<pc, err>>
    /\ UNCHANGED <<opts, input, consumed, chunk, ri, buf, rows_processed, total_rows,
                   progress, writers, files, outputs, decoded, sent>>

\* lines 554-558: the engine takes the result of the next call of the flush; a
\* call that raised ends the run through the finally clause
Collect ==
    /\ pc = "join"
    /\ Futures # <<>>
    /\ LET k == Head(Futures)
       IN  /\ call[k].st \in {"returned", "raised"}
           /\ IF call[k].st = "returned"
              THEN /\ call' = [call EXCEPT ![k] = IdleCall]
                   /\ UNCHANGED <<pc, err>>
              ELSE /\ pc' = "shutdown"
                   /\ err' = "write"
                   /\ call' = call
    /\ UNCHANGED <<opts, input, consumed, chunk, ri, buf, rows_processed, total_rows,
                   progress, writers, files, outputs, decoded, sent>>

\* lines 610-612 after an exception: executor.shutdown(wait=True) returns when no
\* call is running
DrainedNoWait == TRUE

\* executor.shutdown(wait=True) has returned: no submitted call is running
Drained == \A k \in DOMAIN call : call[k].st # "loop"

Shutdown ==
    /\ pc = "shutdown"
    /\ Drained
    /\ pc' = "error"
    /\ UNCHANGED <<opts, input, err, consumed, chunk, ri, buf, rows_processed,
                   total_rows, progress, writers, call, files, outputs, decoded, sent>>

\* lines 559 and 598-608: flush() returns with the buffer emptied; inside the row
\* loop the loop goes on, after the last row the chunk is counted and reported
JoinedNoWait == TRUE

\* the loop over the futures of the flush has taken every result
Joined == Futures = <<>>

FlushReturn ==
    /\ pc = "join"
    /\ Joined
    /\ buf' = <<>>
    /\ IF ri <= Len(chunk)
       THEN /\ ri' = ri + 1
            /\ pc' = "rows"
            /\ UNCHANGED <<err, rows_processed, progress>>
       ELSE /\ ri' = ri
            /\ rows_processed' = rows_processed + Len(chunk)
            /\ progress' = IF opts.progress
                           THEN Append(progress,
                                       BatchFraction(rows_processed + Len(chunk), total_rows))
                           ELSE progress
            /\ \E cb_raises \in {FALSE, opts.progress} :
                 IF cb_raises THEN Abort("callback") ELSE pc' = "read" /\ err' = err
    /\ UNCHANGED <<opts, input, consumed, chunk, total_rows, writers, call, files,
                   outputs, decoded, sent>>

\* the partition paths the run returns: one writer's, or the first stream's
\* followed by the second's
ReturnedPaths ==
    IF opts.split THEN writers["c0"].paths \o writers["c1"].paths
    ELSE writers["one"].paths

\* lines 610-624: the reader is exhausted; the completion event, then the paths
Finish ==
    /\ pc \in {"read0", "read"}
    /\ consumed >= input.nrows
    /\ progress' = IF opts.progress THEN Append(progress, Frac(1, 1)) ELSE progress
    /\ \E cb_raises \in {FALSE, opts.progress} :
         IF cb_raises
         THEN Abort("callback") /\ UNCHANGED outputs
         ELSE pc' = "done" /\ err' = err /\ outputs' = ReturnedPaths
    /\ UNCHANGED <<opts, input, consumed, chunk, ri, buf, rows_processed, total_rows,
                   writers, call, files, decoded, sent>>

Next ==
    \/ Start
    \/ ReadChunk
    \/ RowStep
    \/ TrailingFlush
    \/ WriteStep
    \/ WriteFail
    \/ Collect
    \/ Shutdown
    \/ FlushReturn
    \/ Finish

Spec == Init /\ [][Next]_vars

-----------------------------------------------------------------------------
(* One row through the row loop, for any id text and payload text *)

\* most tokens of a payload text
MaxTokens == 2

RECURSIVE HexChars(_)
\* the upper-case hexadecimal digits of n, as a text
HexChars(n) ==
    IF n < 16 THEN <<HexUpper[n + 1]>> ELSE Append(HexChars(n \div 16), HexUpper[(n % 16) + 1])

\* ids around and inside every family range, the exact ids, and ids of no family
DecodeIds ==
    ((MC_CAN_BASE1 - 2)..(MC_CAN_BASE2 + 33)) \cup ((DC_CAN_BASE - 2)..(DC_CAN_BASE + 17))
    \cup ((STW_CAN_BASE - 2)..(STW_CAN_BASE + 17)) \cup ((BP_CAN_BASE - 2)..(BP_CAN_BASE + 17))
    \cup ((MPPT_CAN_BASE - 2)..(MPPT_CAN_BASE + 33)) \cup ((OR_CAN_BASE - 1)..(OR_CAN_BASE + 7))
    \cup {0, 291, THERM_GENERAL, THERM_ADDRCLAIM}

\* id cells: a plain hexadecimal text per id, and texts that exercise the parser
IdTexts ==
    { HexChars(n) : n \in DecodeIds }
    \cup { <<>>, <<" ">>, <<"Z", "Z">>, <<"0", "x", "4", "2", "f">>,
           <<" ", "6", "b", "4", "\t">>, <<"-", "1", "F">>, <<"0", "x">>,
           <<"5", "8", " ", "1">> }

\* the pieces payload texts are made of: nine digits, the four bytes of +Infinity,
\* mixed case around a space, a tab, a letter that is no hex digit
DataTokens ==
    { <<"0", "1", "2", "3", "4", "5", "6", "7", "8">>,
      <<"0", "0", "0", "0", "8", "0", "7", "F">>,
      <<"a", " ", "B">>, <<"\t">>, <<"G">> }

DataTexts ==
    { Flatten(ts) : ts \in UNION { [1..n -> DataTokens] : n \in 0..MaxTokens } }

InitDecode ==
    /\ opts \in [split : {FALSE}, include_bits : BOOLEAN, channel : {<<>>},
                 row_limit : {1}, progress : {FALSE}, outs : {TRUE}]
    /\ input \in [cols : { {"id", "data", "timestamp", "channel"}, {"id", "data"} },
                  nrows : {1}]
    /\ opts.include_bits => "channel" \in input.cols
    /\ \E id \in IdTexts, data \in DataTexts :
         chunk = << InputRow([id |-> id, data |-> data, channel |-> <<"c", "a", "n", "0">>], 1) >>
    /\ pc = "decode"
    /\ err = ""
    /\ consumed = 1
    /\ ri = 1
    /\ buf = <<>>
    /\ rows_processed = 0
    /\ total_rows = 0
    /\ progress = <<>>
    /\ writers = <<>>
    /\ call = <<>>
    /\ files = <<>>
    /\ outputs = <<>>
    /\ decoded = <<>>
    /\ sent = <<>>

\* the body of the row loop on the row: the records it appends, a skip, or the
\* exception of a decoder
DecodeOne ==
    /\ pc = "decode"
    /\ LET o == DecodeRow(chunk[ri], input.cols, opts.include_bits)
       IN  /\ pc' = o.kind
           /\ buf' = o.recs
           /\ decoded' = o.recs
    /\ ri' = ri + 1
    /\ UNCHANGED <<opts, input, err, consumed, chunk, rows_processed, total_rows,
                   progress, writers, call, files, outputs, sent>>

NextDecode == DecodeOne

SpecDecode == InitDecode /\ [][NextDecode]_vars

-----------------------------------------------------------------------------
(* One row through the row loop, for payloads of two-byte words and an id of every
   kind of decoder *)

\* most two-byte words of a payload text
MaxWords == 4

\* the two-byte words payload texts are made of
WordTokens ==
    { <<"0", "1", "8", "0">>, <<"F", "F", "7", "f">>, <<"a", "5", "0", "0">> }

WordTexts ==
    { Flatten(ts) : ts \in UNION { [1..n -> WordTokens] : n \in 0..MaxWords } }

\* an id without a decoder, the six battery ids, and one id per family
ExpandIds ==
    { 291, OR_SVOLT, OR_PACK, OR_STEMP, OR_FLAGS, OR_AVOLT, OR_ATEMP,
      MC_CAN_BASE1 + 1, DC_CAN_BASE + 1, STW_CAN_BASE + 1, BP_CAN_BASE + 1,
      MPPT_CAN_BASE + 1 }

InitExpand ==
    /\ opts \in [split : {FALSE}, include_bits : BOOLEAN, channel : {<<>>},
                 row_limit : {1}, progress : {FALSE}, outs : {TRUE}]
    /\ input \in [cols : { {"id", "data", "timestamp", "channel"}, {"id", "data"} },
                  nrows : {1}]
    /\ \E id \in ExpandIds, data \in WordTexts :
         chunk = << InputRow([id |-> HexChars(id), data |-> data,
                              channel |-> <<"c", "a", "n", "1">>], 1) >>
    /\ pc = "decode"
    /\ err = ""
    /\ consumed = 1
    /\ ri = 1
    /\ buf = <<>>
    /\ rows_processed = 0
    /\ total_rows = 0
    /\ progress = <<>>
    /\ writers = <<>>
    /\ call = <<>>
    /\ files = <<>>
    /\ outputs = <<>>
    /\ decoded = <<>>
    /\ sent = <<>>

SpecExpand == InitExpand /\ [][NextDecode]_vars

-----------------------------------------------------------------------------
(* The engine in split mode on an input without channel column: routing runs *)

InitRoute ==
    /\ opts \in [split : {TRUE}, include_bits : {FALSE}, channel : {<<>>},
                 row_limit : 1..MaxRunRowLimit, progress : {FALSE}, outs : {TRUE}]
    /\ input \in [cols : { {"id", "data", "timestamp"} }, nrows : 1..2, route : {TRUE}]
    /\ total_rows = 0
    /\ pc = "start"
    /\ err = ""
    /\ consumed = 0
    /\ chunk = <<>>
    /\ ri = 1
    /\ buf = <<>>
    /\ rows_processed = 0
    /\ progress = <<>>
    /\ writers = <<>>
    /\ call = <<>>
    /\ files = <<>>
    /\ outputs = <<>>
    /\ decoded = <<>>
    /\ sent = <<>>

SpecRoute == InitRoute /\ [][Next]_vars

-----------------------------------------------------------------------------
(* The engine in split mode only: two writers, two workers *)

InitStreams ==
    /\ Init
    /\ opts.split

SpecStreams == InitStreams /\ [][Next]_vars

-----------------------------------------------------------------------------
(* One chunk through the channel filter and the row loop *)

\* the rows of a filtered chunk: the rows of a mixed run and an extra-temps row whose
\* tag ends in a space
FilterKinds ==
    MixedKinds \cup
    { [id |-> <<"6", "B", "5">>,
       data |-> <<"0", "3", "0", "3">>,
       channel |-> <<"c", "a", "n", "1", " ">>] }

InitFilter ==
    /\ opts \in [split : {FALSE}, include_bits : {FALSE},
                 channel : ChannelFilters \cup { <<"c", "a", "n", "0">> },
                 row_limit : {1}, progress : {FALSE}, outs : {TRUE}]
    /\ \E cols \in { {"id", "data", "timestamp", "channel"}, {"id", "data", "timestamp"} } :
       \E n \in 1..CHUNK_ROWS : \E kinds \in [1..n -> FilterKinds] :
         input = [cols |-> cols, nrows |-> n,
                  rows |-> [i \in 1..n |->
                              [id |-> kinds[i].id, data |-> kinds[i].data,
                               channel |-> IF "channel" \in cols THEN kinds[i].channel
                                           ELSE <<>>,
                               timestamp |-> "t" \o DecStr(i)]]]
    /\ pc = "filter"
    /\ err = ""
    /\ consumed = 0
    /\ chunk = <<>>
    /\ ri = 1
    /\ buf = <<>>
    /\ rows_processed = 0
    /\ total_rows = 0
    /\ progress = <<>>
    /\ writers = <<>>
    /\ call = <<>>
    /\ files = <<>>
    /\ outputs = <<>>
    /\ decoded = <<>>
    /\ sent = <<>>

\* lines 522-526: the reader hands out the rows of the file as one chunk, the filter
\* is applied to it
FilterChunk ==
    /\ pc = "filter"
    /\ chunk' = Filtered(input.rows)
    /\ consumed' = input.nrows
    /\ ri' = 1
    /\ pc' = "rows"
    /\ UNCHANGED <<opts, input, err, buf, rows_processed, total_rows, progress, writers,
                   call, files, outputs, decoded, sent>>

\* lines 561-596: one row of the chunk through the body of the row loop
LoopRow ==
    /\ pc = "rows"
    /\ ri <= Len(chunk)
    /\ LET o == DecodeRow(chunk[ri], input.cols, opts.include_bits)
       IN  /\ pc' = IF o.kind = "raise" THEN "raise" ELSE "rows"
           /\ buf' = buf \o o.recs
           /\ decoded' = decoded \o o.recs
    /\ ri' = ri + 1
    /\ UNCHANGED <<opts, input, err, consumed, chunk, rows_processed, total_rows,
                   progress, writers, call, files, outputs, sent>>

NextFilter == FilterChunk \/ LoopRow

SpecFilter == InitFilter /\ [][NextFilter]_vars

-----------------------------------------------------------------------------
(* The writer on its own with a row ceiling of 1, 0 or below *)

\* the lowest row ceiling is -MaxBelowZero
MaxBelowZero == 2
\* the loop of write_df is followed until the writer is at partition MaxParts
MaxParts == 6

InitCeiling ==
    /\ \E rl \in (0 - MaxBelowZero)..1 :
         /\ opts = [split |-> FALSE, include_bits |-> FALSE, channel |-> <<>>,
                    row_limit |-> rl, progress |-> FALSE, outs |-> TRUE]
         /\ writers = [k \in {"one"} |-> NewWriter(WriterOut, rl, WriterColumns)]
    /\ input = [cols |-> {}, nrows |-> 0]
    /\ pc = "writer"
    /\ err = ""
    /\ consumed = 0
    /\ chunk = <<>>
    /\ ri = 1
    /\ buf = <<>>
    /\ rows_processed = 0
    /\ total_rows = 0
    /\ progress = <<>>
    /\ call = [k \in {"one"} |-> IdleCall]
    /\ files = <<>>
    /\ outputs = <<>>
    /\ decoded = <<>>
    /\ sent = [k \in {"one"} |-> <<>>]

\* one iteration of the loop of write_df, while the writer is below partition MaxParts
CeilingStep ==
    /\ writers["one"].part < MaxParts
    /\ WriterStep

NextCeiling == WriterBatch \/ CeilingStep

SpecCeiling == InitCeiling /\ [][NextCeiling]_vars

-----------------------------------------------------------------------------
(* One frame through the dispatch, for payloads given byte by byte *)

\* the values a payload byte is drawn from
FrameBytes == {0, 1, 255}

\* what a single-byte change adds to a byte (modulo 256)
AlterSteps == {1, 128, 255}

\* the four pack-summary words 1230, 1305, 85 and 9, least significant byte first
PackExample == <<206, 4, 25, 5, 85, 0, 9, 0>>

FrameIds == {OR_PACK, OR_AVOLT, OR_ATEMP}

\* the payloads of an id: seven bytes of FrameBytes followed by a byte of FrameBytes
\* or, for the cell broadcast, by the checksum of the frame
FramePayloads(can_id) ==
    UNION { { Append(body, last) :
                last \in FrameBytes \cup {compute_checksum(can_id, body)} } :
            body \in [1..7 -> FrameBytes] }
    \cup {PackExample}

InitFrame ==
    /\ opts = [split |-> FALSE, include_bits |-> FALSE, channel |-> <<>>,
               row_limit |-> 1, progress |-> FALSE, outs |-> TRUE]
    /\ input = [cols |-> {"id", "data", "timestamp"}, nrows |-> 1]
    /\ \E can_id \in FrameIds : \E d \in FramePayloads(can_id) :
         chunk = << [can_id |-> can_id, d |-> d, ts |-> "t1"] >>
    /\ pc = "frame"
    /\ err = ""
    /\ consumed = 1
    /\ ri = 1
    /\ buf = <<>>
    /\ rows_processed = 0
    /\ total_rows = 0
    /\ progress = <<>>
    /\ writers = <<>>
    /\ call = <<>>
    /\ files = <<>>
    /\ outputs = <<>>
    /\ decoded = <<>>
    /\ sent = <<>>

\* recs = dec(ts, can_id, data_b) on the frame: pc becomes the kind of the result
DecodeFrame ==
    /\ pc = "frame"
    /\ LET res == Dispatch(chunk[1].ts, chunk[1].can_id, chunk[1].d)
       IN  /\ pc' = res.kind
           /\ decoded' = res.recs
    /\ UNCHANGED <<opts, input, err, consumed, chunk, ri, buf, rows_processed,
                   total_rows, progress, writers, call, files, outputs, sent>>

\* a second cell-broadcast frame that differs from a decoded one with a matching
\* checksum in one of the bytes 0..6; buf keeps the record of the first
AlterByte ==
    /\ pc = "list"
    /\ ri = 1
    /\ chunk[1].can_id = OR_AVOLT
    /\ Get(decoded[1], "checksum_ok")
    /\ \E i \in 1..7, step \in AlterSteps :
         chunk' = << [chunk[1] EXCEPT !.d[i] = (@ + step) % 256] >>
    /\ pc' = "frame"
    /\ ri' = 2
    /\ buf' = decoded
    /\ UNCHANGED <<opts, input, err, consumed, rows_processed, total_rows, progress,
                   writers, call, files, outputs, decoded, sent>>

NextFrame == DecodeFrame \/ AlterByte

SpecFrame == InitFrame /\ [][NextFrame]_vars

-----------------------------------------------------------------------------
(* Observations on files and writers *)

DataLines(lines) == SelectSeq(lines, LAMBDA l : l.kind = "row")

\* the data rows of a writer's partition files, read in partition order
StreamRows(k) ==
    Flatten([i \in 1..Len(writers[k].paths) |-> DataLines(files[writers[k].paths[i]])])

\* the CSV lines the rows of recs make under the schema columns
SchemaRows(columns, recs) == [i \in 1..Len(recs) |-> CsvRow(columns, recs[i])]

CeilDiv(a, b) == (a + b - 1) \div b

Returned(k) == call[k].st \in {"idle", "returned"}

\* the number of data rows of each partition file of a writer, in partition order
RowCounts(k) ==
    [i \in 1..Len(writers[k].paths) |-> Len(DataLines(files[writers[k].paths[i]]))]

\* rows of the batch in hand that the loop of write_df has not written yet
Pending(k) == IF call[k].st = "loop" THEN Len(call[k].df.rows) - call[k].start ELSE 0

-----------------------------------------------------------------------------
(* Claims on the partitioned writer (specification SpecWriter) *)

\* C1: with a row ceiling of at least 1, after any sequence of write_df calls of
\* any batch sizes (and after every iteration inside a call) no partition file
\* holds more than row_limit data rows.
C1_NoPartitionExceedsLimit ==
    \A p \in DOMAIN files : Len(DataLines(files[p])) <= writers["one"].row_limit

\* C1 witness: a call has returned, a partition is full to exactly row_limit and
\* the stream has gone on into a further partition.
C1_Witness ==
    /\ Returned("one")
    /\ Len(writers["one"].paths) >= 2
    /\ Len(DataLines(files[writers["one"].paths[1]])) = writers["one"].row_limit
    /\ writers["one"].row_limit >= 2

\* C2: the data rows of the partition files, read in partition order, are exactly
\* the rows of all batches passed to write_df in call order, less the rows of the
\* batch in hand the loop has not reached yet: nothing lost, duplicated or
\* reordered. Once write_df has returned nothing is pending, so the files hold all rows.
C2_RowsExactlyInCallOrder ==
    StreamRows("one") =
        SchemaRows(writers["one"].columns,
                   SubSeq(sent["one"], 1, Len(sent["one"]) - Pending("one")))

\* C2 witness: a batch spans a roll boundary: its first rows are written, the
\* writer has rolled into a later partition, and rows of it are still to come.
C2_Witness ==
    /\ call["one"].st = "loop"
    /\ call["one"].start > 0
    /\ writers["one"].part >= 2
    /\ writers["one"].count_in_part = 0
    /\ Len(call["one"].df.rows) - call["one"].start >= 2

\* the general part of C3: N >= 1 records make ceil(N / row_limit) files, all but
\* the last holding exactly row_limit rows
C3_CeilFiles ==
    LET w == writers["one"]
        n == Len(sent["one"])
    IN  (Returned("one") /\ n >= 1) =>
          /\ Len(w.paths) = CeilDiv(n, w.row_limit)
          /\ Cardinality(DOMAIN files) = CeilDiv(n, w.row_limit)
          /\ \A i \in 1..(Len(w.paths) - 1) : RowCounts("one")[i] = w.row_limit
          /\ RowCounts("one")[Len(w.paths)] = n - (Len(w.paths) - 1) * w.row_limit

\* C3 as stated: the general part, and 2*row_limit + 5 records always make exactly
\* 3 files holding row_limit, row_limit and 5 rows.
C3_AsStated ==
    LET w == writers["one"]
    IN  /\ C3_CeilFiles
        /\ (Returned("one") /\ Len(sent["one"]) = 2 * w.row_limit + 5) =>
              RowCounts("one") = <<w.row_limit, w.row_limit, 5>>

\* C3 amended: the general part, and 2*row_limit + 5 records make exactly 3 files
\* holding row_limit, row_limit and 5 rows when row_limit is at least 5.
C3_ThreeFilesWhenLimitAtLeastFive ==
    LET w == writers["one"]
    IN  /\ C3_CeilFiles
        /\ (Returned("one") /\ Len(sent["one"]) = 2 * w.row_limit + 5 /\ w.row_limit >= 5) =>
              RowCounts("one") = <<w.row_limit, w.row_limit, 5>>

\* C3 witness: 2*row_limit + 5 records were written under a ceiling of at least 5.
C3_Witness ==
    /\ Returned("one")
    /\ writers["one"].row_limit >= 5
    /\ Len(sent["one"]) = 2 * writers["one"].row_limit + 5
    /\ Len(writers["one"].paths) = 3

\* C4: every partition file starts with the header line, holds no second header,
\* and the header is the writer's fixed column list, whatever fields the batches
\* populated (also in a file opened by a roll in the middle of a batch).
C4_HeaderOncePerFile ==
    \A p \in DOMAIN files :
        /\ Len(files[p]) >= 1
        /\ files[p][1] = CsvHeader(writers["one"].columns)
        /\ \A i \in 2..Len(files[p]) : files[p][i].kind = "row"

\* C4 witness: batches that populated different fields were written, and a roll in
\* the middle of a batch has opened a later partition that holds rows of it.
C4_Witness ==
    /\ call["one"].st = "loop"
    /\ call["one"].start > 0
    /\ writers["one"].part >= 2
    /\ writers["one"].count_in_part >= 1
    /\ \E i, j \in 1..Len(sent["one"]) : Keys(sent["one"][i]) # Keys(sent["one"][j])
    /\ \E i \in 1..Len(sent["one"]) : Has(sent["one"][i], "word0")

-----------------------------------------------------------------------------
(* Claims on the row loop (specification SpecDecode) *)

\* the row of a SpecDecode run
TheRow == chunk[1]

\* the row passes the two guards of the loop: its id parses, its payload text is
\* accepted as hexadecimal
Accepted(r) ==
    /\ RowSid(r) # <<>>
    /\ parse_can_id(RowSid(r)).ok
    /\ FromHex(DataText(r)).ok

RowId(r) == parse_can_id(RowSid(r)).val

\* the family ranges with an offset table: name, base, width, table
Families ==
    << [name |-> "MC", base |-> MC_CAN_BASE1, width |-> 32, table |-> MC_OFFSETS],
       [name |-> "MC", base |-> MC_CAN_BASE2, width |-> 32, table |-> MC_OFFSETS],
       [name |-> "DC", base |-> DC_CAN_BASE, width |-> 16, table |-> DC_OFFSETS],
       [name |-> "STW", base |-> STW_CAN_BASE, width |-> 16, table |-> STW_OFFSETS],
       [name |-> "BP", base |-> BP_CAN_BASE, width |-> 16, table |-> BP_OFFSETS] >>

\* the id is an exact-id entry or lies in a family range
KnownId(id) ==
    \/ id \in ExactIds
    \/ \E i \in 1..Len(Families) :
         Families[i].base <= id /\ id < Families[i].base + Families[i].width
    \/ (MPPT_CAN_BASE <= id /\ id < MPPT_CAN_BASE + 32)

\* the payload cell without its spaces and surrounding whitespace
Cleaned(r) == Strip(RemoveSpaces(r.data))

\* C6: a row the loop accepts whose id is in no exact-id entry and in no family
\* range yields exactly one record; its message is "RAW" and its raw_data is the
\* payload text cut to 16 characters and right-padded with "0" to 16.
C6_UnknownIdYieldsOneRaw ==
    (pc # "decode" /\ Accepted(TheRow) /\ ~KnownId(RowId(TheRow))) =>
        /\ pc = "recs"
        /\ Len(decoded) = 1
        /\ Get(decoded[1], "message") = "RAW"
        /\ Len(Get(decoded[1], "raw_data")) = 16
        /\ \A i \in 1..16 :
             Get(decoded[1], "raw_data")[i] =
                 IF i <= Len(Cleaned(TheRow)) THEN Cleaned(TheRow)[i] ELSE "0"

\* C6 witness: an id of no family with a payload text longer than 16 characters
\* has been decoded into a RAW record.
C6_Witness ==
    /\ pc = "recs"
    /\ Accepted(TheRow)
    /\ ~KnownId(RowId(TheRow))
    /\ Len(Cleaned(TheRow)) > 16
    /\ Get(decoded[1], "message") = "RAW"

\* the name the spec gives an offset a family table lacks (offsets lie below 256)
UnknownName(family, offset) ==
    family \o "_UNKNOWN_" \o HexUpper[(offset \div 16) + 1] \o HexUpper[(offset % 16) + 1]

\* C7: a row with an 8-byte payload whose id lies in the range of the motor
\* controllers, the driver controls, the steering wheel or the battery protection
\* at an offset the family's table lacks yields exactly one record, named
\* <FAMILY>_UNKNOWN_<offset as two hex digits>: not dropped, not RAW.
C7_UnknownOffsetNamed ==
    \A i \in 1..Len(Families) :
        LET fam    == Families[i]
            offset == RowId(TheRow) - fam.base
        IN  ( /\ pc # "decode"
              /\ Accepted(TheRow)
              /\ Len(FromHex(DataText(TheRow)).bytes) = 8
              /\ 0 <= offset /\ offset < fam.width
              /\ ~Has(fam.table, offset) ) =>
                /\ pc = "recs"
                /\ Len(decoded) = 1
                /\ Get(decoded[1], "message") = UnknownName(fam.name, offset)

\* C7 witness: an id of the second motor controller at an offset the table lacks
\* has been decoded.
C7_Witness ==
    /\ pc = "recs"
    /\ Accepted(TheRow)
    /\ Len(FromHex(DataText(TheRow)).bytes) = 8
    /\ MC_CAN_BASE2 <= RowId(TheRow) /\ RowId(TheRow) < MC_CAN_BASE2 + 32
    /\ ~Has(MC_OFFSETS, RowId(TheRow) - MC_CAN_BASE2)
    /\ Len(decoded) = 1

-----------------------------------------------------------------------------
(* Claims on the streaming engine (specification Spec) *)

\* the payload text holds a character that is no hexadecimal digit
NonHexPayload(r) == \E i \in 1..Len(DataText(r)) : ~IsHexChar(DataText(r)[i])

\* the id cell is empty or no hexadecimal number
UnparseableId(r) == RowSid(r) = <<>> \/ ~parse_can_id(RowSid(r)).ok

\* C5 as stated: in split mode, when the run has completed, the rows of the two
\* streams together number the decoded records (whatever the channel tags are).
C5_EveryRecordInOneStream ==
    (opts.split /\ pc = "done") =>
        Len(StreamRows("c0")) + Len(StreamRows("c1")) = Len(decoded)

\* C8 as stated: a row with an unparseable id or a non-hex payload never aborts
\* the run: no run ends with the exception of a decoder on such a row.
C8_BadRowNeverAborts ==
    (pc = "error" /\ err = "decode") =>
        ~(UnparseableId(chunk[ri]) \/ NonHexPayload(chunk[ri]))

\* C9 as stated: when the input lacks the id or the data column the run does not
\* complete: it ends with an error, and no output file is opened.
C9_MissingColumnRefused ==
    ~({"id", "data"} \subseteq input.cols) => (pc # "done" /\ DOMAIN files = {})

\* C10: in a run with a progress callback the first fraction reported is 0, the
\* fractions never decrease, every fraction but the last is below 1 (and is 0
\* when there is no row estimate), a completed run has reported exactly 1 as its
\* last fraction, and 1 is reported only when the input is exhausted and every
\* buffered record has been written to its stream.
C10_ProgressSequence ==
    opts.progress =>
        LET n == Len(progress)
        IN  /\ pc # "start" => (n >= 1 /\ progress[1].n = 0)
            /\ \A i \in 1..(n - 1) : FracLeq(progress[i], progress[i + 1])
            /\ \A i \in 1..(n - 1) :
                 /\ FracLess(progress[i], Frac(1, 1))
                 /\ total_rows = 0 => progress[i].n = 0
            /\ pc = "done" => (n >= 2 /\ progress[n].n = progress[n].d)
            /\ (n >= 1 /\ progress[n].n = progress[n].d) =>
                 /\ pc \in {"done", "error"}
                 /\ consumed >= input.nrows
                 /\ buf = <<>>
                 /\ \A k \in DOMAIN sent : Len(StreamRows(k)) = Len(sent[k])

\* C10 witness: a run with a row estimate has completed after two batches: the
\* fractions reported are 0, a proper fraction, the cap, and 1.
C10_Witness ==
    /\ pc = "done"
    /\ opts.progress
    /\ total_rows > 0
    /\ Len(progress) = 4
    /\ FracLess(Frac(0, 1), progress[2])
    /\ FracLess(progress[2], progress[3])
    /\ progress[3] = Frac(999, 1000)
    /\ decoded # <<>>

\* C11 as stated: at every point of a run the record buffer holds at most
\* FLUSH_EVERY records, also after a frame that decodes to several records.
C11_BufferAtMostThreshold == Len(buf) <= FLUSH_EVERY

\* the writers with a write_df call running
Running == {k \in DOMAIN call : call[k].st = "loop"}

\* C12: a write runs only inside a flush (or while the engine drains the pool
\* after an error), never while the engine reads, decodes a row or has ended; in
\* single-file mode the only write is the engine's own call on its one writer; in
\* split mode at most two writes run, on different writers, and each writes the
\* group of its writer of the one buffer being flushed.
C12_WritesOnlyInsideOneFlush ==
    /\ Running # {} => pc \in {"join", "shutdown"}
    /\ ~opts.split => (Running \subseteq {"one"} /\ (pc = "shutdown" => Running = {}))
    /\ Cardinality(Running) <= 2
    /\ \A k \in Running :
         call[k].df = Reindex(DataFrame(BatchFor(k, buf)), writers[k].columns)

\* C12 witness: in split mode both writers are writing their group of one flush.
C12_Witness ==
    /\ opts.split
    /\ pc = "join"
    /\ Running = {"c0", "c1"}
    /\ call["c0"].df # call["c1"].df

\* C13: when a split run has returned or raised, no write is running.
C13_PoolDrainedAtEnd ==
    (opts.split /\ pc \in {"done", "error"}) => \A k \in DOMAIN call : call[k].st # "loop"

\* C13 witness: a split run has ended with the error of the first stream's write
\* after the second stream's write of the same flush ran to its end.
C13_Witness ==
    /\ opts.split
    /\ pc = "error"
    /\ err = "write"
    /\ call["c0"].st = "raised"
    /\ call["c1"].st = "returned"
    /\ StreamRows("c1") # <<>>

\* C14 as stated: in split mode the flush call has ended (by return or by an
\* exception) only when no write it submitted is running.
C14_FlushEndsAfterBothWrites ==
    (opts.split /\ pc # "join") => \A k \in DOMAIN call : call[k].st # "loop"

\* the records of a whole run that belong to writer k, in decode order
RunRecords(k) == BatchFor(k, decoded)

\* the number of partition files N rows make under row_limit
PartsOf(k) == CeilDiv(Len(RunRecords(k)), opts.row_limit)

\* the name of the i-th partition file of writer k
PartPath(k, i) ==
    IF i = 1 THEN OutPath(k).base \o OutPath(k).ext
    ELSE OutPath(k).base \o "_part" \o DecStr(i) \o OutPath(k).ext

\* the lines of the i-th partition file of writer k: the header, then the i-th
\* run of row_limit records of the stream
PartLines(k, i) ==
    <<CsvHeader(known_columns(opts.include_bits))>>
    \o SchemaRows(known_columns(opts.include_bits),
                  SubSeq(RunRecords(k), (i - 1) * opts.row_limit + 1,
                         Min(i * opts.row_limit, Len(RunRecords(k)))))

\* C15: the output of a completed run is a function of the records decoded from
\* its input and of its options alone: whatever the order in which the steps of
\* the two writer threads interleaved, the files are the partitions of each
\* stream's records in decode order and the paths returned are their names in
\* order, the first stream's before the second's.
C15_OutputDeterminedByInput ==
    pc = "done" =>
        /\ \A k \in WriterNames : \A i \in 1..PartsOf(k) :
              /\ PartPath(k, i) \in DOMAIN files
              /\ files[PartPath(k, i)] = PartLines(k, i)
        /\ DOMAIN files = {PartPath(k, i) : k \in WriterNames, i \in 1..Len(decoded)}
                           \cap DOMAIN files
        /\ \A k \in WriterNames : \A i \in 1..Len(decoded) :
              PartPath(k, i) \in DOMAIN files => i <= PartsOf(k)
        /\ outputs = IF opts.split
                      THEN [i \in 1..PartsOf("c0") |-> PartPath("c0", i)]
                           \o [i \in 1..PartsOf("c1") |-> PartPath("c1", i)]
                      ELSE [i \in 1..PartsOf("one") |-> PartPath("one", i)]

\* C15 witness: a split run has completed in which both streams hold rows and
\* one of them rolled into a second partition.
C15_Witness ==
    /\ pc = "done"
    /\ opts.split
    /\ StreamRows("c0") # <<>>
    /\ StreamRows("c1") # <<>>
    /\ Len(outputs) >= 3

-----------------------------------------------------------------------------
(* Claims on the decoders and the schema (specification SpecDecode) *)

\* C16 as stated: every field name of every decoded record is a column of the
\* schema known_columns returns for the run's include_bits.
C16_EveryFieldIsAColumn ==
    \A i \in 1..Len(decoded) : \A j \in 1..Len(decoded[i]) :
        decoded[i][j][1] \in Range(known_columns(opts.include_bits))

\* the payload of the row decodes to 8 bytes
EightBytes(r) == Len(FromHex(DataText(r)).bytes) = 8

\* C17 as stated: for every id and every 8-byte payload the decoder (or the RAW
\* passthrough) returns without raising, and every record it returns carries
\* timestamp, id_hex and message, the latter two non-empty and the timestamp that
\* of the row.
C17_DecodersTotalOnEightBytes ==
    (pc # "decode" /\ Accepted(TheRow) /\ EightBytes(TheRow)) =>
        /\ pc = "recs"
        /\ \A i \in 1..Len(decoded) :
              /\ Has(decoded[i], "timestamp")
              /\ Has(decoded[i], "id_hex")
              /\ Has(decoded[i], "message")
              /\ Get(decoded[i], "timestamp") = RowTs(TheRow, input.cols)
              /\ Get(decoded[i], "id_hex") # ""
              /\ Get(decoded[i], "message") # ""


-----------------------------------------------------------------------------
(* Claims on single frames (specification SpecFrame) *)

TheFrame == chunk[1]

\* the frame has been through the dispatch
FrameDone == pc # "frame"

\* byte i (from 0) of the frame's payload
FrameByte(i) == TheFrame.d[i + 1]

\* C18: a cell-broadcast frame always yields exactly one record, and its checksum_ok is
\* true exactly when byte 7 is the low byte of (broadcast id + 8 + bytes 0..6); a frame
\* that differs in one of the bytes 0..6 from a frame with checksum_ok = true has
\* checksum_ok = false.
C18_ChecksumOkIffByte7Matches ==
    (FrameDone /\ TheFrame.can_id = OR_AVOLT) =>
        /\ pc = "list"
        /\ Len(decoded) = 1
        /\ Get(decoded[1], "message") = "OR_AVOLT"
        /\ Get(decoded[1], "checksum") = FrameByte(7)
        /\ Get(decoded[1], "checksum_ok") =
              (FrameByte(7) = (1716 + 8 + FrameByte(0) + FrameByte(1) + FrameByte(2)
                                 + FrameByte(3) + FrameByte(4) + FrameByte(5)
                                 + FrameByte(6)) % 256)
        /\ ri = 2 => (Get(buf[1], "checksum_ok") /\ ~Get(decoded[1], "checksum_ok"))

\* a frame with a matching checksum was decoded, one of its bytes 0..6 was changed, and
\* the changed frame was decoded to a record with checksum_ok = false
C18_Witness ==
    /\ FrameDone
    /\ TheFrame.can_id = OR_AVOLT
    /\ ri = 2
    /\ Len(buf) = 1
    /\ Get(buf[1], "checksum_ok")
    /\ Len(decoded) = 1
    /\ ~Get(decoded[1], "checksum_ok")

\* the 16-bit word at bytes i, i+1 of the frame, least significant byte first
FrameWord(i) == FrameByte(i) + 256 * FrameByte(i + 1)

\* C19: a pack-summary frame yields one OR_PACK record with the current the signed word
\* at bytes 0-1 in tenths (negative exactly when bit 15 is set), the voltage the word at
\* bytes 2-3 in tenths, the state of charge the word at bytes 4-5 in halves and the cell
\* count the word at bytes 6-7; the words 1230, 1305, 85, 9 give 123.0, 130.5, 42.5, 9.
C19_PackFieldsFromWords ==
    (FrameDone /\ TheFrame.can_id = OR_PACK) =>
        /\ pc = "list"
        /\ Len(decoded) = 1
        /\ Get(decoded[1], "message") = "OR_PACK"
        /\ Get(decoded[1], "pack_current_A") =
              Dec(IF FrameByte(1) >= 128 THEN FrameWord(0) - 65536 ELSE FrameWord(0), 1)
        /\ (Get(decoded[1], "pack_current_A").m < 0) = (FrameByte(1) >= 128)
        /\ Get(decoded[1], "pack_voltage_V") = Dec(FrameWord(2), 1)
        /\ Get(decoded[1], "state_of_charge_pct") = Dec(5 * FrameWord(4), 1)
        /\ Get(decoded[1], "num_cells") = FrameWord(6)
        /\ TheFrame.d = PackExample =>
              /\ Get(decoded[1], "pack_current_A") = Dec(1230, 1)
              /\ Get(decoded[1], "pack_voltage_V") = Dec(1305, 1)
              /\ Get(decoded[1], "state_of_charge_pct") = Dec(425, 1)
              /\ Get(decoded[1], "num_cells") = 9

\* the frame with the words 1230, 1305, 85, 9 has been decoded
C19_Witness ==
    /\ FrameDone
    /\ TheFrame.can_id = OR_PACK
    /\ TheFrame.d = PackExample
    /\ Len(decoded) = 1
    /\ Get(decoded[1], "pack_current_A") = Dec(1230, 1)

\* the id and the signed temperature of pair p (from 0) of the frame
PairId(p) == FrameByte(2 * p)

PairTemp(p) == IF FrameByte(2 * p + 1) >= 128 THEN FrameByte(2 * p + 1) - 256
               ELSE FrameByte(2 * p + 1)

\* the pairs the claim keeps: the first, and every later one that is not (0, 0)
KeptPairs == SelectSeq(<<0, 1, 2, 3>>,
                       LAMBDA p : p = 0 \/ ~(PairId(p) = 0 /\ PairTemp(p) = 0))

\* C20: an extra-temps frame yields one OR_ATEMP record per kept pair, in pair order,
\* carrying that pair's id and signed temperature; the first pair is always kept and a
\* later pair is dropped exactly when its id and temperature are both 0, so there are
\* between 1 and 4 records.
C20_OneRecordPerKeptPair ==
    (FrameDone /\ TheFrame.can_id = OR_ATEMP) =>
        /\ pc = "list"
        /\ Len(decoded) = Len(KeptPairs)
        /\ Len(decoded) \in 1..4
        /\ \A j \in 1..Len(decoded) :
              /\ Get(decoded[j], "message") = "OR_ATEMP"
              /\ Get(decoded[j], "thermistor_local_id") = PairId(KeptPairs[j])
              /\ Get(decoded[j], "temp_C") = PairTemp(KeptPairs[j])

\* a decoded frame whose first pair is (0, 0) and kept, whose second pair is (0, 0)
\* and dropped, and whose third pair has a negative temperature
C20_Witness ==
    /\ FrameDone
    /\ TheFrame.can_id = OR_ATEMP
    /\ PairId(0) = 0 /\ PairTemp(0) = 0
    /\ PairId(1) = 0 /\ PairTemp(1) = 0
    /\ PairTemp(2) < 0
    /\ Len(decoded) \in {2, 3}
    /\ Get(decoded[1], "thermistor_local_id") = 0
    /\ Get(decoded[2], "temp_C") = PairTemp(2)

-----------------------------------------------------------------------------
(* Claims on the raw-bit expansion (specification SpecExpand) *)

\* the payload bytes of the row, as the row loop hands them to the decoder
RowBytes == FromHex(DataText(TheRow)).bytes

\* the names of the raw-bit fields of payload byte i: value, hex text, bits 0..7
RawBitTable ==
    [i \in 0..7 |->
        [byte |-> "b" \o DecStr(i),
         hex  |-> "b" \o DecStr(i) \o "_hex",
         bit  |-> [k \in 0..7 |-> "b" \o DecStr(i) \o "_bit" \o DecStr(k)]]]

ByteName(i) == RawBitTable[i].byte

ByteHexName(i) == RawBitTable[i].hex

ByteBitName(i, k) == RawBitTable[i].bit[k]

RawBitNames ==
    UNION { {ByteName(i), ByteHexName(i)} \cup {ByteBitName(i, k) : k \in 0..7} : i \in 0..7 }

\* the two upper-case hexadecimal digits of a byte
TwoHexDigits(b) == HexUpper[(b \div 16) + 1] \o HexUpper[(b % 16) + 1]

\* C21: with raw-bit expansion the schema has exactly 80 more columns, all new, and
\* every record a row yields carries for each payload byte i its value, its two hex
\* digits and its bits, bit k being (byte i >> k) & 1; without it no record carries
\* any of these fields.
C21_RawBitsOnEveryRecord ==
    /\ Len(known_columns(TRUE)) = Len(known_columns(FALSE)) + 80
    /\ Range(known_columns(TRUE)) \ Range(known_columns(FALSE)) = RawBitNames
    /\ Cardinality(RawBitNames) = 80
    /\ pc = "recs" =>
          LET bytes == RowBytes
          IN  \A n \in 1..Len(decoded) :
                 LET names == Range(Keys(decoded[n]))
                 IN  IF opts.include_bits
                     THEN /\ RawBitNames \subseteq names
                          /\ \A i \in 0..7 :
                                /\ Get(decoded[n], ByteName(i)) = bytes[i + 1]
                                /\ Get(decoded[n], ByteHexName(i)) = TwoHexDigits(bytes[i + 1])
                                /\ \A k \in 0..7 :
                                      Get(decoded[n], ByteBitName(i, k)) =
                                         (bytes[i + 1] \div (2 ^ k)) % 2
                     ELSE RawBitNames \cap names = {}

\* a frame of three records decoded with the expansion: the last record carries byte 5
\* = 0x7F, all bits set but bit 7
C21_Witness ==
    /\ pc = "recs"
    /\ opts.include_bits
    /\ Len(decoded) = 3
    /\ Get(decoded[3], "message") = "OR_ATEMP"
    /\ Get(decoded[3], "b5") = 127
    /\ Get(decoded[3], "b5_hex") = "7F"
    /\ Get(decoded[3], "b5_bit7") = 0
    /\ Get(decoded[3], "b5_bit0") = 1

-----------------------------------------------------------------------------
(* Claims on the names of the partition files (specification Spec) *)

\* the output path the caller asked for: out_one, out_can1, out_can2
RequestedPath(k) ==
    CASE k = "one" -> "out.csv"
      [] k = "c0" -> "first.csv"
      [] k = "c1" -> "second.csv"

\* the requested path without its extension
RequestedStem(k) ==
    CASE k = "one" -> "out"
      [] k = "c0" -> "first"
      [] k = "c1" -> "second"

\* the rows of the records handed to writer k that make its i-th partition
PartitionRows(k, i) ==
    SchemaRows(writers[k].columns,
               SubSeq(sent[k], (i - 1) * opts.row_limit + 1,
                      Min(i * opts.row_limit, Len(sent[k]))))

\* C22: when a run has returned, the i-th partition of each stream is in the file
\* named by the requested path for i = 1 and by stem, "_part", i and the extension
\* for i >= 2; the returned list is these names in partition order, the first
\* stream's before the second's, without repetition, and it names exactly the
\* files that exist.
C22_PartitionNamesReturnedOnce ==
    pc = "done" =>
        /\ \A k \in WriterNames : \A i \in 1..Len(writers[k].paths) :
              LET p == writers[k].paths[i]
              IN  /\ p = IF i = 1 THEN RequestedPath(k)
                         ELSE RequestedStem(k) \o "_part" \o DecStr(i) \o ".csv"
                  /\ p \in DOMAIN files
                  /\ DataLines(files[p]) = PartitionRows(k, i)
                  /\ PartitionRows(k, i) # <<>>
        /\ \A k \in WriterNames : Len(sent[k]) <= Len(writers[k].paths) * opts.row_limit
        /\ outputs = IF opts.split THEN writers["c0"].paths \o writers["c1"].paths
                      ELSE writers["one"].paths
        /\ \A i, j \in 1..Len(outputs) : i < j => outputs[i] # outputs[j]
        /\ Range(outputs) = DOMAIN files

\* a split run has returned two partitions of each stream
C22_Witness ==
    /\ pc = "done"
    /\ opts.split
    /\ outputs = <<"first.csv", "first_part2.csv", "second.csv", "second_part2.csv">>

-----------------------------------------------------------------------------
(* Claims on write failures (specification Spec) *)

\* a write_df call of the run has raised
WriteFailed == \E k \in DOMAIN call : call[k].st = "raised"

IsPrefix(s, t) == Len(s) <= Len(t) /\ SubSeq(t, 1, Len(s)) = s

\* C23: once a write has raised, the run never returns: it has no output list and no
\* completion event, it ends raising the write's exception, and from the failure on
\* every file on disk stays, keeps the lines it has, and is not changed at all when it
\* is a full partition.
C23_WriteFailureAborts ==
    /\ [](WriteFailed =>
            /\ pc \in {"join", "shutdown", "error"}
            /\ outputs = <<>>
            /\ Frac(1, 1) \notin Range(progress)
            /\ pc = "error" => err = "write")
    /\ [][WriteFailed =>
            /\ WriteFailed'
            /\ pc' # "done"
            /\ \A p \in DOMAIN files :
                  /\ p \in DOMAIN files'
                  /\ IsPrefix(files[p], files'[p])
                  /\ Len(DataLines(files[p])) = opts.row_limit => files'[p] = files[p]]_vars

\* a run that reported a batch and holds a full partition has ended on a write failure
C23_Witness ==
    /\ pc = "error"
    /\ err = "write"
    /\ WriteFailed
    /\ Len(progress) >= 2
    /\ \E p \in DOMAIN files : Len(DataLines(files[p])) = opts.row_limit

-----------------------------------------------------------------------------
(* Claims on the progress callback (specification Spec) *)

\* C24 as stated: an exception raised by the progress callback never ends the run.
C24_CallbackFailureDoesNotAbort == ~(pc = "error" /\ err = "callback")

-----------------------------------------------------------------------------
(* Claims on the payload normalisation (specification SpecDecode) *)

\* the text is made of hexadecimal digits and spaces only
HexAndSpaces(t) == \A i \in 1..Len(t) : IsHexChar(t[i]) \/ t[i] = " "

\* the text without its spaces, cut to 16 characters and filled up with "0"
Normalised(t) ==
    LET digits == SelectSeq(t, LAMBDA c : c # " ")
    IN  [i \in 1..16 |-> IF i <= Len(digits) THEN digits[i] ELSE "0"]

\* byte i (from 0) of a text of 16 hexadecimal digits
ByteOfText(t, i) == 16 * HexVal(t[2 * i + 1]) + HexVal(t[2 * i + 2])

\* C25: for a row with a usable id whose data text is made of hex digits and spaces,
\* of any length, the row is not skipped and the decoder is given exactly the 8 bytes
\* of the text without spaces, cut to 16 digits and right-padded with "0" (seen in
\* raw_data of a RAW record and in the byte fields of the raw-bit expansion);
\* normalising the normalised text gives the same text.
C25_PayloadNormalisedToEightBytes ==
    (pc # "decode" /\ RowSid(TheRow) # <<>> /\ parse_can_id(RowSid(TheRow)).ok
       /\ HexAndSpaces(TheRow.data)) =>
        LET text == Normalised(TheRow.data)
        IN  /\ pc \in {"recs", "raise"}
            /\ DataText(TheRow) = text
            /\ FromHex(DataText(TheRow)).ok
            /\ Len(FromHex(DataText(TheRow)).bytes) = 8
            /\ \A i \in 0..7 : FromHex(DataText(TheRow)).bytes[i + 1] = ByteOfText(text, i)
            /\ DataText([TheRow EXCEPT !.data = text]) = text
            /\ Normalised(text) = text
            /\ \A n \in 1..Len(decoded) :
                  /\ Get(decoded[n], "message") = "RAW" =>
                        Get(decoded[n], "raw_data") = text
                  /\ opts.include_bits =>
                        \A i \in 0..7 :
                           /\ Has(decoded[n], ByteName(i))
                           /\ Get(decoded[n], ByteName(i)) = ByteOfText(text, i)

\* a text of 17 digits has been cut to 16 and decoded, with the expansion, to a RAW
\* record
C25_Witness ==
    /\ pc = "recs"
    /\ opts.include_bits
    /\ HexAndSpaces(TheRow.data)
    /\ Len(TheRow.data) = 17
    /\ Len(decoded) = 1
    /\ Get(decoded[1], "message") = "RAW"
    /\ Len(Get(decoded[1], "raw_data")) = 16
    /\ Get(decoded[1], "b7") = ByteOfText(Normalised(TheRow.data), 7)

-----------------------------------------------------------------------------
(* Claims on the routing of a split run (specification SpecRoute) *)

\* hex(can_id) of the battery-bus ids: 0x6B0..0x6B5 and the two thermistor ids
BatteryIdHex == {"0x6b0", "0x6b1", "0x6b2", "0x6b3", "0x6b4", "0x6b5",
                 "0x1838f380", "0x18eeff80"}

\* C26 as stated: in a split run without channel tags every record handed to writer_c1
\* comes from a battery-bus id and every record handed to writer_c0 from another id.
C26_BatteryRecordsToCan1 ==
    (opts.split /\ "channel" \notin input.cols /\ pc # "start") =>
        /\ \A i \in 1..Len(sent["c1"]) : Get(sent["c1"][i], "id_hex") \in BatteryIdHex
        /\ \A i \in 1..Len(sent["c0"]) : Get(sent["c0"][i], "id_hex") \notin BatteryIdHex

-----------------------------------------------------------------------------
(* Claims on the order of rows in a split run (specification SpecStreams) *)

\* the rows the records of the run routed to writer k make, in decode order
RowsInDecodeOrder(k) == SchemaRows(known_columns(opts.include_bits), RunRecords(k))

\* the data rows of the files writer k has written, read in partition order (a path
\* whose write raised has no file)
WrittenRows(k) ==
    Flatten([i \in 1..Len(writers[k].paths) |->
               IF writers[k].paths[i] \in DOMAIN files
               THEN DataLines(files[writers[k].paths[i]]) ELSE <<>>])

\* C27: in split mode, at every moment of a run and under every interleaving of the two
\* workers, the rows of each stream, read in partition order, are the first rows of the
\* stream's records in the order in which they were decoded; a run that has returned
\* holds all of them.
C27_StreamRowsInDecodeOrder ==
    (opts.split /\ DOMAIN writers = {"c0", "c1"}) =>
        \A k \in {"c0", "c1"} :
           LET written == WrittenRows(k)
               ordered == RowsInDecodeOrder(k)
           IN  /\ IsPrefix(written, ordered)
               /\ pc = "done" => written = ordered

\* a split run has returned whose second stream holds four different rows, written by
\* two flushes into at least two partitions, next to a row of the first stream
C27_Witness ==
    /\ opts.split
    /\ pc = "done"
    /\ Len(WrittenRows("c1")) = 4
    /\ Len(writers["c1"].paths) >= 2
    /\ WrittenRows("c0") # <<>>
    /\ \A i, j \in 1..4 : i # j => WrittenRows("c1")[i] # WrittenRows("c1")[j]

-----------------------------------------------------------------------------
(* Claims on the channel filter (specification SpecFilter) *)

\* the filter applies: one is given and the input has a channel column
FilterApplies == opts.channel # <<>> /\ "channel" \in input.cols

\* the rows of the file the claim has decoded: those whose tag is the filter up to the
\* case of its letters, or all of them when the filter does not apply
RowsToDecode ==
    IF FilterApplies
    THEN SelectSeq(input.rows, LAMBDA r : Lower(r.channel) = Lower(opts.channel))
    ELSE input.rows

\* the records the row loop makes of the first n of the rows
RecordsOf(rows, n) ==
    Flatten([i \in 1..n |-> DecodeRow(rows[i], input.cols, opts.include_bits).recs])

\* C28: the rows that reach the row loop are exactly the rows of the file whose channel
\* tag equals the filter case-insensitively, in file order, when a filter is given and
\* the input has a channel column, and all rows of the file otherwise; the records are
\* those of these rows and of no other row.
C28_FilterKeepsMatchingRows ==
    pc # "filter" =>
        /\ chunk = RowsToDecode
        /\ decoded = RecordsOf(RowsToDecode, ri - 1)
        /\ FilterApplies =>
              \A n \in 1..Len(decoded) :
                 Lower(Get(decoded[n], "channel")) = Lower(opts.channel)

\* a chunk of two rows tagged CAN1 and can0 went through the filter Can1: the first row
\* alone was decoded, to two records
C28_Witness ==
    /\ pc = "rows"
    /\ ri > Len(chunk)
    /\ FilterApplies
    /\ opts.channel = <<"C", "a", "n", "1">>
    /\ Len(input.rows) = 2
    /\ input.rows[1].channel = <<"C", "A", "N", "1">>
    /\ input.rows[2].channel = <<"c", "a", "n", "0">>
    /\ Len(chunk) = 1
    /\ Len(decoded) = 2

-----------------------------------------------------------------------------
(* Claims on the row ceiling (specification SpecCeiling) *)

\* C29 as stated: write_df terminates and creates finitely many files for every row
\* ceiling, also one of 0 or below. A call that terminates writes every row of its
\* batch, and a partition is opened only for rows to go into it: the writer is never at
\* a partition beyond the number of rows it was handed, and a row it has left behind is
\* still to be written.
C29_WriteDfTerminates ==
    /\ writers["one"].part <= Max(1, Len(sent["one"]))
    /\ call["one"].st = "loop" => call["one"].start >= 0

-----------------------------------------------------------------------------
(* Claims on lazily opened partitions (specification Spec) *)

\* the files writer k has created
CreatedBy(k) == { p \in DOMAIN files : p \in Range(writers[k].paths) }

\* C30: whenever write_df of a writer is not running and has not raised, every file
\* that writer has created holds at least one data row; and a run that ends with no
\* decoded record has created no file and returns an empty output list.
C30_PartitionsOpenedLazily ==
    /\ \A k \in DOMAIN writers :
         call[k].st \in {"idle", "returned"}
            => \A p \in CreatedBy(k) : Len(DataLines(files[p])) >= 1
    /\ (pc = "done" /\ decoded = <<>>) => (files = <<>> /\ outputs = <<>>)

\* a run has ended whose first partition is exactly full and whose second partition
\* holds the rows that came after it
C30_Witness ==
    /\ pc = "done"
    /\ ~opts.split
    /\ opts.row_limit = FLUSH_EVERY
    /\ Len(writers["one"].paths) = 2
    /\ Len(DataLines(files[writers["one"].paths[1]])) = opts.row_limit
    /\ Len(DataLines(files[writers["one"].paths[2]])) >= 1

=============================================================================
